---- MODULE Spec2Model ----
(***************************************************************************)
(* Model of the small-language front end of Cpp_Compiler:                  *)
(*   - the single-file pipeline of src/__compiler__/Parser.cpp             *)
(*     (tokenize, Parser, Interpreter), and                                *)
(*   - the extended lexer of src/__compiler__/Tokenizer.hpp.               *)
(* Source text is a sequence of one-character strings; a token literal is  *)
(* the subsequence of the source it was cut from.  C++ indices are kept    *)
(* 0-based (CharAt converts).                                              *)
(***************************************************************************)
EXTENDS Integers, Sequences, FiniteSets, TLC

VARIABLES
    which,        \* the lexer: "cpp" tokenize() of Parser.cpp, "hpp" Tokenizer, "none"
    source,       \* the source text handed to the lexer
    keywords,     \* Tokenizer::keywords, the static table shared by all Tokenizer objects
    lx,           \* the lexer's cursor: [start, current, line]
    tokens,       \* the token vector (being built by the lexer, then read by the parser)
    pc,           \* position of the driver
    m_current,    \* Parser::m_current
    statements,   \* the vector parse() is filling / has returned
    perr,         \* the exception that left parse(), or NoError
    idx,          \* number of top-level statements interpret() has started
    environment,  \* Interpreter::environment
    output,       \* lines written to std::cout
    trace,        \* every execute() call made so far, in call order
    rerr,         \* the runtime_error caught by interpret(), or NoError
    uncaught,     \* an exception that left interpret() (not a runtime_error), or NoError
    first         \* what an earlier run on the same input returned, or NoRun

vars == <<which, source, keywords, lx, tokens, pc, m_current, statements, perr,
          idx, environment, output, trace, rerr, uncaught, first>>

NoError == <<>>

\* no run has been completed before the current one
NoRun == <<>>

(***************************************************************************)
(* Characters                                                              *)
(***************************************************************************)
isdigit(c) == c \in {"0", "1", "2", "3", "4", "5", "6", "7", "8", "9"}

isalpha(c) ==
    c \in {"a", "b", "c", "d", "e", "f", "g", "h", "i", "j", "k", "l", "m",
           "n", "o", "p", "q", "r", "s", "t", "u", "v", "w", "x", "y", "z",
           "A", "B", "C", "D", "E", "F", "G", "H", "I", "J", "K", "L", "M",
           "N", "O", "P", "Q", "R", "S", "T", "U", "V", "W", "X", "Y", "Z"}

isalnum(c) == isalpha(c) \/ isdigit(c)

\* source[i] with the 0-based index of the C++ code
CharAt(src, i) == src[i + 1]

\* source.substr(start, current - start)
substr(src, start, current) == SubSeq(src, start + 1, current)

(***************************************************************************)
(* PART 1 of Parser.cpp: tokenize                                          *)
(***************************************************************************)
EOF_TYPE == "END_OF_FILE"

\* the local map `keywords` of tokenize
cpp_keywords(text) ==
    CASE text = <<"i", "f">>                -> "IF"
      [] text = <<"e", "l", "s", "e">>      -> "ELSE"
      [] text = <<"p", "r", "i", "n", "t">> -> "PRINT"
      [] text = <<"l", "e", "t">>           -> "LET"
      [] OTHER                              -> "IDENTIFIER"

\* the lambda make_token: the token cut from start up to current
make_token(src, start, current, line, type) ==
    [type |-> type, literal |-> substr(src, start, current), line |-> line]

\* the lambda match, called after `current++`: it looks at source[current + 1]
\* and returns the new value of current together with its answer
match(src, current, expected) ==
    IF current + 1 >= Len(src) \/ CharAt(src, current + 1) # expected
    THEN [ok |-> FALSE, current |-> current]
    ELSE [ok |-> TRUE, current |-> current + 1]

\* while (current < source.length() && P(source[current])) current++;
\* the value of current when the loop ends: the first index from current on that is
\* the end of the text or a character P rejects
ScanWhile(src, current, P(_)) ==
    CHOOSE j \in current..Len(src) :
        /\ \A i \in current..(j - 1) : P(CharAt(src, i))
        /\ j = Len(src) \/ ~P(CharAt(src, j))

skip_digits(src, current) == ScanWhile(src, current, isdigit)

isword(c) == isalnum(c) \/ c = "_"

skip_alnum(src, current) == ScanWhile(src, current, isword)

\* the token type the switch chooses for a one-character token
cpp_single(c) ==
    CASE c = "(" -> "OPEN_PAREN"
      [] c = ")" -> "CLOSE_PAREN"
      [] c = "{" -> "OPEN_BRACE"
      [] c = "}" -> "CLOSE_BRACE"
      [] c = ";" -> "SEMICOLON"
      [] c = "+" -> "PLUS"
      [] c = "-" -> "MINUS"
      [] c = "*" -> "STAR"
      [] c = "/" -> "SLASH"

\* the token types of the cases '=', '!', '<', '>': <<with a second '=', alone>>
cpp_double(c) ==
    CASE c = "=" -> <<"EQUAL_EQUAL", "EQUAL">>
      [] c = "!" -> <<"BANG_EQUAL", "BANG">>
      [] c = "<" -> <<"LESS_EQUAL", "LESS">>
      [] c = ">" -> <<"GREATER_EQUAL", "GREATER">>

\* One iteration of the while loop of tokenize: the cursor and the tokens after it.
tokenize_step(src, l, toks) ==
    LET c     == CharAt(src, l.current)
        start == l.current
        cur   == l.current + 1
        emit(type, cur2) ==
            [lx |-> [start |-> start, current |-> cur2, line |-> l.line],
             tokens |-> Append(toks, make_token(src, start, cur2, l.line, type))]
    IN  CASE c \in {" ", "\r", "\t"} ->
               [lx |-> [start |-> start, current |-> cur, line |-> l.line], tokens |-> toks]
          [] c = "\n" ->
               [lx |-> [start |-> start, current |-> cur, line |-> l.line + 1], tokens |-> toks]
          [] c \in {"(", ")", "{", "}", ";", "+", "-", "*", "/"} ->
               emit(cpp_single(c), cur)
          [] c \in {"=", "!", "<", ">"} ->
               LET m == match(src, cur, "=")
               IN  emit(IF m.ok THEN cpp_double(c)[1] ELSE cpp_double(c)[2], m.current)
          [] isdigit(c) ->
               emit("NUMBER", skip_digits(src, cur))
          [] isalpha(c) \/ c = "_" ->
               LET cur2 == skip_alnum(src, cur)
               IN  emit(cpp_keywords(substr(src, start, cur2)), cur2)
          [] OTHER ->
               emit("UNKNOWN", cur)

\* tokens.push_back({TokenType::END_OF_FILE, "", line}); return tokens;
tokenize_finish(toks, line) ==
    Append(toks, [type |-> EOF_TYPE, literal |-> <<>>, line |-> line])

\* tokenize as a whole
RECURSIVE tokenize_from(_, _, _)
tokenize_from(src, l, toks) ==
    IF l.current < Len(src)
    THEN LET r == tokenize_step(src, l, toks) IN tokenize_from(src, r.lx, r.tokens)
    ELSE tokenize_finish(toks, l.line)

LexStart == [start |-> 0, current |-> 0, line |-> 1]

tokenize(src) == tokenize_from(src, LexStart, <<>>)

(***************************************************************************)
(* Tokenizer.hpp: class Tokenizer                                          *)
(***************************************************************************)
\* what the constructor stores in the static map when it finds it empty
KeywordTable ==
    { <<<<"f", "u", "n", "c">>, "KEYWORD_FUNC">>,
      <<<<"r", "e", "t", "u", "r", "n">>, "KEYWORD_RETURN">>,
      <<<<"i", "f">>, "KEYWORD_IF">>,
      <<<<"e", "l", "s", "e">>, "KEYWORD_ELSE">>,
      <<<<"l", "e", "t">>, "KEYWORD_LET">>,
      <<<<"w", "h", "i", "l", "e">>, "KEYWORD_WHILE">>,
      <<<<"f", "o", "r">>, "KEYWORD_FOR">>,
      <<<<"i", "n", "t">>, "KEYWORD_INT">>,
      <<<<"s", "t", "r", "i", "n", "g">>, "KEYWORD_STRING">>,
      <<<<"c", "h", "a", "r">>, "KEYWORD_CHAR">>,
      <<<<"b", "o", "o", "l">>, "KEYWORD_BOOL">>,
      <<<<"t", "r", "u", "e">>, "KEYWORD_TRUE">>,
      <<<<"f", "a", "l", "s", "e">>, "KEYWORD_FALSE">>,
      <<<<"n", "i", "l">>, "KEYWORD_NIL">> }

\* mutant of Tokenizer_ctor: a later construction empties the table it finds filled
Tokenizer_ctor_toggles(kw) == IF kw = {} THEN KeywordTable ELSE {}

\* Tokenizer::Tokenizer: m_line(1), and the table is filled only when it is empty
Tokenizer_ctor(kw) == IF kw = {} THEN KeywordTable ELSE kw

\* keywords.find(text): the type stored for text, or IDENTIFIER when there is none
Tokenizer_lookup(kw, text) ==
    IF \E e \in kw : e[1] = text
    THEN (CHOOSE e \in kw : e[1] = text)[2]
    ELSE "IDENTIFIER"

Tokenizer_is_at_end(src, t) == t.current >= Len(src)

\* Tokenizer::peek: '\0' at the end
Tokenizer_peek(src, t) ==
    IF Tokenizer_is_at_end(src, t) THEN "NUL" ELSE CharAt(src, t.current)

Tokenizer_peek_next(src, t) ==
    IF t.current + 1 >= Len(src) THEN "NUL" ELSE CharAt(src, t.current + 1)

\* Tokenizer::match: looks at source[m_current]
Tokenizer_match(src, t, expected) ==
    IF Tokenizer_is_at_end(src, t) \/ CharAt(src, t.current) # expected
    THEN [ok |-> FALSE, t |-> t]
    ELSE [ok |-> TRUE, t |-> [t EXCEPT !.current = @ + 1]]

Tokenizer_make_token(src, t, type) ==
    [literal |-> substr(src, t.start, t.current), type |-> type, line |-> t.line]

\* while (peek() != '\n' && !is_at_end()) advance();
not_newline(c) == c # "\n"
skip_comment(src, t) == [t EXCEPT !.current = ScanWhile(src, t.current, not_newline)]

\* the loop of string_literal: it advances to the closing quote or the end, and
\* adds one to m_line for every newline it passes
not_dquote(c) == c # "\""
skip_string(src, t) ==
    LET stop == ScanWhile(src, t.current, not_dquote)
    IN  [t EXCEPT !.current = stop,
                  !.line = @ + Cardinality({i \in t.current..(stop - 1) : CharAt(src, i) = "\n"})]

\* the loop of char_literal
not_squote(c) == c # "'"
skip_char(src, t) == [t EXCEPT !.current = ScanWhile(src, t.current, not_squote)]

\* while (std::isdigit(peek())) advance();
Tokenizer_skip_digits(src, t) == [t EXCEPT !.current = ScanWhile(src, t.current, isdigit)]

\* while (std::isalnum(peek()) || peek() == '_') advance();
Tokenizer_skip_alnum(src, t) == [t EXCEPT !.current = ScanWhile(src, t.current, isword)]

\* string_literal without the test for the end of input
string_literal_unchecked(src, t) ==
    LET t1 == skip_string(src, t)
        t2 == [t1 EXCEPT !.current = IF @ < Len(src) THEN @ + 1 ELSE @]
    IN  [t |-> t2, tok |-> Tokenizer_make_token(src, t2, "STRING_LITERAL")]

\* Each of the literal scanners returns the cursor after the token and the token.
string_literal(src, t) ==
    LET t1 == skip_string(src, t)
    IN  IF Tokenizer_is_at_end(src, t1)
        THEN [t |-> t1, tok |-> Tokenizer_make_token(src, t1, "UNKNOWN")]
        ELSE LET t2 == [t1 EXCEPT !.current = @ + 1]
             IN  [t |-> t2, tok |-> Tokenizer_make_token(src, t2, "STRING_LITERAL")]

char_literal(src, t) ==
    LET t1 == skip_char(src, t)
    IN  IF Tokenizer_is_at_end(src, t1)
        THEN [t |-> t1, tok |-> Tokenizer_make_token(src, t1, "UNKNOWN")]
        ELSE LET t2 == [t1 EXCEPT !.current = @ + 1]
             IN  [t |-> t2, tok |-> Tokenizer_make_token(src, t2, "CHAR_LITERAL")]

number_literal(src, t) ==
    LET t1 == Tokenizer_skip_digits(src, t)
    IN  IF Tokenizer_peek(src, t1) = "." /\ isdigit(Tokenizer_peek_next(src, t1))
        THEN LET t2 == Tokenizer_skip_digits(src, [t1 EXCEPT !.current = @ + 1])
             IN  [t |-> t2, tok |-> Tokenizer_make_token(src, t2, "FLOAT_LITERAL")]
        ELSE [t |-> t1, tok |-> Tokenizer_make_token(src, t1, "INTEGER_LITERAL")]

identifier(src, kw, t) ==
    LET t1 == Tokenizer_skip_alnum(src, t)
    IN  [t |-> t1,
         tok |-> Tokenizer_make_token(src, t1,
                     Tokenizer_lookup(kw, substr(src, t1.start, t1.current)))]

hpp_single(c) ==
    CASE c = "(" -> "OPEN_PAREN"
      [] c = ")" -> "CLOSE_PAREN"
      [] c = "{" -> "OPEN_BRACE"
      [] c = "}" -> "CLOSE_BRACE"
      [] c = ";" -> "SEMICOLON"
      [] c = "," -> "COMMA"
      [] c = "+" -> "PLUS"
      [] c = "-" -> "MINUS"
      [] c = "*" -> "STAR"
      [] c = "%" -> "PERCENT"
      [] c = "^" -> "CARET"

\* the cases with one character of lookahead: <<second character, type with it, type without>>
hpp_double(c) ==
    CASE c = "=" -> <<"=", "DBL_EQUALS", "EQUALS">>
      [] c = "!" -> <<"=", "NOT_EQUALS", "UNKNOWN">>
      [] c = "<" -> <<"=", "LESS_EQ", "LESS">>
      [] c = ">" -> <<"=", "GREATER_EQ", "GREATER">>
      [] c = "&" -> <<"&", "LOGICAL_AND", "UNKNOWN">>
      [] c = "|" -> <<"|", "LOGICAL_OR", "UNKNOWN">>

\* One iteration of the while loop of Tokenizer::tokenize.
Tokenizer_step(src, kw, l, toks) ==
    LET c  == CharAt(src, l.current)
        t0 == [start |-> l.current, current |-> l.current + 1, line |-> l.line]
        push(r) == [lx |-> r.t, tokens |-> Append(toks, r.tok)]
    IN  CASE c \in {"(", ")", "{", "}", ";", ",", "+", "-", "*", "%", "^"} ->
               push([t |-> t0, tok |-> Tokenizer_make_token(src, t0, hpp_single(c))])
          [] c \in {"=", "!", "<", ">", "&", "|"} ->
               LET d == hpp_double(c)
                   m == Tokenizer_match(src, t0, d[1])
               IN  push([t |-> m.t,
                         tok |-> Tokenizer_make_token(src, m.t, IF m.ok THEN d[2] ELSE d[3])])
          [] c = "/" ->
               LET m == Tokenizer_match(src, t0, "/")
               IN  IF m.ok
                   THEN [lx |-> skip_comment(src, m.t), tokens |-> toks]
                   ELSE push([t |-> t0, tok |-> Tokenizer_make_token(src, t0, "SLASH")])
          [] c = "\"" -> push(string_literal(src, t0))
          [] c = "'"  -> push(char_literal(src, t0))
          [] c \in {" ", "\r", "\t"} -> [lx |-> t0, tokens |-> toks]
          [] c = "\n" -> [lx |-> [t0 EXCEPT !.line = @ + 1], tokens |-> toks]
          [] isdigit(c) -> push(number_literal(src, t0))
          [] isalpha(c) \/ c = "_" -> push(identifier(src, kw, t0))
          [] OTHER -> push([t |-> t0, tok |-> Tokenizer_make_token(src, t0, "UNKNOWN")])

\* mutant of Tokenizer_finish: the sentinel is not appended
Tokenizer_finish_nosentinel(toks, line) == toks

\* tokens.push_back({"", TokenType::END_OF_FILE, m_line}); return tokens;
Tokenizer_finish(toks, line) ==
    Append(toks, [literal |-> <<>>, type |-> EOF_TYPE, line |-> line])

(***************************************************************************)
(* PART 2 of Parser.cpp: AST nodes                                         *)
(***************************************************************************)
Null == [tag |-> "nullptr"]

BinaryExpr(l, o, r)  == [tag |-> "BinaryExpr", left |-> l, op |-> o, right |-> r]
LiteralExpr(val)     == [tag |-> "LiteralExpr", value |-> val]
VariableExpr(n)      == [tag |-> "VariableExpr", name |-> n]
AssignExpr(n, val)   == [tag |-> "AssignExpr", name |-> n, value |-> val]
ExpressionStmt(expr) == [tag |-> "ExpressionStmt", expression |-> expr]
PrintStmt(expr)      == [tag |-> "PrintStmt", expression |-> expr]
LetStmt(n, init)     == [tag |-> "LetStmt", name |-> n, initializer |-> init]
BlockStmt(stmts)     == [tag |-> "BlockStmt", statements |-> stmts]
IfStmt(c, t, e)      == [tag |-> "IfStmt", condition |-> c, thenBranch |-> t, elseBranch |-> e]

(***************************************************************************)
(* PART 3 of Parser.cpp: class Parser                                      *)
(* Every grammar method takes the token vector and m_current and returns   *)
(* [ok, node, cur, err]: the node built and the new m_current, or, when    *)
(* the method throws, the exception and m_current at the throw.            *)
(***************************************************************************)
Ok(node, cur) == [ok |-> TRUE, node |-> node, cur |-> cur, err |-> NoError]

\* throw std::runtime_error("[line " + to_string(line) + "] Error: " + message)
Throw(line, message, cur) ==
    [ok |-> FALSE, node |-> Null, cur |-> cur, err |-> [line |-> line, message |-> message]]

peek(toks, cur)      == toks[cur + 1]
previous(toks, cur)  == toks[cur]
\* mutant of is_at_end: the end is the end of the vector, not the sentinel
is_at_end_size(toks, cur) == cur >= Len(toks)
is_at_end(toks, cur) == peek(toks, cur).type = EOF_TYPE
check(toks, cur, type) ==
    IF is_at_end(toks, cur) THEN FALSE ELSE peek(toks, cur).type = type

\* Token advance() { if (!is_at_end()) m_current++; return previous(); }: the new m_current
advance(toks, cur) == IF ~is_at_end(toks, cur) THEN cur + 1 ELSE cur

\* Parser::match: at most one of the types can be the current token's
Parser_match(toks, cur, types) ==
    IF \E type \in types : check(toks, cur, type)
    THEN [ok |-> TRUE, cur |-> advance(toks, cur)]
    ELSE [ok |-> FALSE, cur |-> cur]

\* Parser::consume: node is the token consumed
consume(toks, cur, type, message) ==
    IF check(toks, cur, type)
    THEN Ok(previous(toks, advance(toks, cur)), advance(toks, cur))
    ELSE Throw(peek(toks, cur).line, message, cur)

RECURSIVE declaration(_, _), statement(_, _), if_statement(_, _), block(_, _),
          block_loop(_, _, _), expression(_, _), assignment(_, _), equality(_, _),
          equality_loop(_, _), comparison(_, _), comparison_loop(_, _), term(_, _),
          term_loop(_, _), factor(_, _), factor_loop(_, _), primary(_, _)

\* `auto x = callee(); rest`: rest runs on the callee's result, and an exception
\* thrown by the callee propagates instead
Bind(r, rest(_)) == IF r.ok THEN rest(r) ELSE r

\* Precedence Level 6: Primary
primary(toks, cur) ==
    LET lit == Parser_match(toks, cur, {"NUMBER", "STRING"})
        id  == Parser_match(toks, cur, {"IDENTIFIER"})
        par == Parser_match(toks, cur, {"OPEN_PAREN"})
    IN  IF lit.ok THEN Ok(LiteralExpr(previous(toks, lit.cur)), lit.cur)
        ELSE IF id.ok THEN Ok(VariableExpr(previous(toks, id.cur)), id.cur)
        ELSE IF par.ok
        THEN Bind(expression(toks, par.cur), LAMBDA expr :
             Bind(consume(toks, expr.cur, "CLOSE_PAREN", "Expect ')' after expression."),
                  LAMBDA close : Ok(expr.node, close.cur)))
        ELSE Throw(peek(toks, cur).line, "Expect expression.", cur)

\* mutant of factor_loop: `+` is taken at the level of `*` and `/`
RECURSIVE factor_loop_plus(_, _)
factor_loop_plus(toks, expr) ==
    LET m == Parser_match(toks, expr.cur, {"SLASH", "STAR", "PLUS"})
    IN  IF ~m.ok THEN expr
        ELSE Bind(primary(toks, m.cur), LAMBDA right :
             factor_loop_plus(toks, Ok(BinaryExpr(expr.node, previous(toks, m.cur),
                                                  right.node), right.cur)))

\* Precedence Level 5: Factor (*, /): the while loop, entered with expr parsed so far
factor_loop(toks, expr) ==
    LET m == Parser_match(toks, expr.cur, {"SLASH", "STAR"})
    IN  IF ~m.ok THEN expr
        ELSE Bind(primary(toks, m.cur), LAMBDA right :
             factor_loop(toks, Ok(BinaryExpr(expr.node, previous(toks, m.cur), right.node),
                                  right.cur)))

factor(toks, cur) ==
    Bind(primary(toks, cur), LAMBDA expr : factor_loop(toks, expr))

\* mutant of term_loop: the right operand is a whole term (right-recursive)
term_loop_right(toks, expr) ==
    LET m == Parser_match(toks, expr.cur, {"MINUS", "PLUS"})
    IN  IF ~m.ok THEN expr
        ELSE Bind(term(toks, m.cur), LAMBDA right :
             Ok(BinaryExpr(expr.node, previous(toks, m.cur), right.node), right.cur))

\* Precedence Level 4: Term (+, -)
term_loop(toks, expr) ==
    LET m == Parser_match(toks, expr.cur, {"MINUS", "PLUS"})
    IN  IF ~m.ok THEN expr
        ELSE Bind(factor(toks, m.cur), LAMBDA right :
             term_loop(toks, Ok(BinaryExpr(expr.node, previous(toks, m.cur), right.node),
                                right.cur)))

term(toks, cur) ==
    Bind(factor(toks, cur), LAMBDA expr : term_loop(toks, expr))

\* Precedence Level 3: Comparison (<, >, <=, >=)
comparison_loop(toks, expr) ==
    LET m == Parser_match(toks, expr.cur,
                          {"GREATER", "GREATER_EQUAL", "LESS", "LESS_EQUAL"})
    IN  IF ~m.ok THEN expr
        ELSE Bind(term(toks, m.cur), LAMBDA right :
             comparison_loop(toks, Ok(BinaryExpr(expr.node, previous(toks, m.cur), right.node),
                                      right.cur)))

comparison(toks, cur) ==
    Bind(term(toks, cur), LAMBDA expr : comparison_loop(toks, expr))

\* Precedence Level 2: Equality (==, !=)
equality_loop(toks, expr) ==
    LET m == Parser_match(toks, expr.cur, {"BANG_EQUAL", "EQUAL_EQUAL"})
    IN  IF ~m.ok THEN expr
        ELSE Bind(comparison(toks, m.cur), LAMBDA right :
             equality_loop(toks, Ok(BinaryExpr(expr.node, previous(toks, m.cur), right.node),
                                    right.cur)))

equality(toks, cur) ==
    Bind(comparison(toks, cur), LAMBDA expr : equality_loop(toks, expr))

\* dynamic_cast<VariableExpr*>(expr.get()) succeeds
IsVariableExpr(node) == node.tag = "VariableExpr"

\* mutant of assignment_rest: the value is parsed by equality(), not by assignment()
assignment_rest_flat(toks, expr, cur) ==
    Bind(equality(toks, cur), LAMBDA value :
         IF IsVariableExpr(expr.node)
         THEN Ok(AssignExpr(expr.node.name, value.node), value.cur)
         ELSE Throw(previous(toks, cur).line, "Invalid assignment target.", value.cur))

\* mutant of assignment_rest: a target that is no variable is passed through silently
assignment_rest_silent(toks, expr, cur) ==
    Bind(assignment(toks, cur), LAMBDA value :
         IF IsVariableExpr(expr.node)
         THEN Ok(AssignExpr(expr.node.name, value.node), value.cur)
         ELSE value)

\* the body of `if (match({EQUAL}))` in assignment, entered with the left side expr
\* and m_current after the `=`: the value is parsed first, the target checked after
assignment_rest(toks, expr, cur) ==
    Bind(assignment(toks, cur), LAMBDA value :
         IF IsVariableExpr(expr.node)
         THEN Ok(AssignExpr(expr.node.name, value.node), value.cur)
         ELSE Throw(previous(toks, cur).line, "Invalid assignment target.", value.cur))

\* Precedence Level 1: Assignment (=)
assignment(toks, cur) ==
    Bind(equality(toks, cur), LAMBDA expr :
         LET m == Parser_match(toks, expr.cur, {"EQUAL"})
         IN  IF m.ok THEN assignment_rest(toks, expr, m.cur) ELSE expr)

\* Precedence Level 0
expression(toks, cur) == assignment(toks, cur)

expression_statement(toks, cur) ==
    Bind(expression(toks, cur), LAMBDA expr :
    Bind(consume(toks, expr.cur, "SEMICOLON", "Expect ';' after expression."),
         LAMBDA semi : Ok(ExpressionStmt(expr.node), semi.cur)))

print_statement(toks, cur) ==
    Bind(expression(toks, cur), LAMBDA value :
    Bind(consume(toks, value.cur, "SEMICOLON", "Expect ';' after value."),
         LAMBDA semi : Ok(PrintStmt(value.node), semi.cur)))

\* Parser::block: the while loop, entered with the statements collected so far
block_loop(toks, cur, stmts) ==
    IF ~check(toks, cur, "CLOSE_BRACE") /\ ~is_at_end(toks, cur)
    THEN Bind(declaration(toks, cur),
              LAMBDA d : block_loop(toks, d.cur, Append(stmts, d.node)))
    ELSE Bind(consume(toks, cur, "CLOSE_BRACE", "Expect '}' after block."),
              LAMBDA close : Ok(stmts, close.cur))

block(toks, cur) == block_loop(toks, cur, <<>>)

\* the end of if_statement, from `if (match({ELSE}))` on
if_else(toks, condition, thenBranch) ==
    LET m == Parser_match(toks, thenBranch.cur, {"ELSE"})
    IN  IF ~m.ok THEN Ok(IfStmt(condition.node, thenBranch.node, Null), thenBranch.cur)
        ELSE Bind(statement(toks, m.cur), LAMBDA elseBranch :
                  Ok(IfStmt(condition.node, thenBranch.node, elseBranch.node),
                     elseBranch.cur))

if_statement(toks, cur) ==
    Bind(consume(toks, cur, "OPEN_PAREN", "Expect '(' after 'if'."), LAMBDA open :
    Bind(expression(toks, open.cur), LAMBDA condition :
    Bind(consume(toks, condition.cur, "CLOSE_PAREN", "Expect ')' after if condition."),
         LAMBDA close :
    Bind(statement(toks, close.cur), LAMBDA thenBranch :
         if_else(toks, condition, thenBranch)))))

statement(toks, cur) ==
    LET mif    == Parser_match(toks, cur, {"IF"})
        mprint == Parser_match(toks, cur, {"PRINT"})
        mbrace == Parser_match(toks, cur, {"OPEN_BRACE"})
    IN  IF mif.ok THEN if_statement(toks, mif.cur)
        ELSE IF mprint.ok THEN print_statement(toks, mprint.cur)
        ELSE IF mbrace.ok
        THEN Bind(block(toks, mbrace.cur), LAMBDA b : Ok(BlockStmt(b.node), b.cur))
        ELSE expression_statement(toks, cur)

\* the initializer of a let: parsed when an `=` follows the name, else nullptr
let_initializer(toks, cur) ==
    LET m == Parser_match(toks, cur, {"EQUAL"})
    IN  IF m.ok THEN expression(toks, m.cur) ELSE Ok(Null, cur)

let_declaration(toks, cur) ==
    Bind(consume(toks, cur, "IDENTIFIER", "Expect variable name."), LAMBDA name :
    Bind(let_initializer(toks, name.cur), LAMBDA initializer :
    Bind(consume(toks, initializer.cur, "SEMICOLON",
                 "Expect ';' after variable declaration."),
         LAMBDA semi : Ok(LetStmt(name.node, initializer.node), semi.cur))))

declaration(toks, cur) ==
    LET m == Parser_match(toks, cur, {"LET"})
    IN  IF m.ok THEN let_declaration(toks, m.cur) ELSE statement(toks, cur)

\* Parser::parse as a whole: the statements returned, or the exception that leaves it
RECURSIVE parse_from(_, _, _)
parse_from(toks, cur, stmts) ==
    IF peek(toks, cur).type # EOF_TYPE
    THEN Bind(declaration(toks, cur),
              LAMBDA d : parse_from(toks, d.cur, Append(stmts, d.node)))
    ELSE Ok(stmts, cur)

parse(toks) == parse_from(toks, 0, <<>>)

(***************************************************************************)
(* The interpreter's values: C++ double.                                   *)
(* A value is [k, s, n, d]: k = "fin" is the number s * n / d (n = 0 keeps *)
(* the sign of zero), k = "inf" is s * infinity, k = "nan" is a NaN.       *)
(* Finite results are kept exact: the rounding of double arithmetic is not *)
(* modelled.                                                               *)
(***************************************************************************)
RECURSIVE gcd(_, _)
gcd(a, b) == IF b = 0 THEN a ELSE gcd(b, a % b)

Fin(s, n, d) ==
    IF n = 0 THEN [k |-> "fin", s |-> s, n |-> 0, d |-> 1]
    ELSE [k |-> "fin", s |-> s, n |-> n \div gcd(n, d), d |-> d \div gcd(n, d)]
Inf(s) == [k |-> "inf", s |-> s, n |-> 1, d |-> 0]
NaN    == [k |-> "nan", s |-> 1, n |-> 0, d |-> 0]
Num(i) == IF i < 0 THEN Fin(-1, -i, 1) ELSE Fin(1, i, 1)
Bool(b) == IF b THEN Num(1) ELSE Num(0)

IsZero(a) == a.k = "fin" /\ a.n = 0
Neg(a)    == [a EXCEPT !.s = -(a.s)]

\* left + right
DAdd(a, b) ==
    IF a.k = "nan" \/ b.k = "nan" THEN NaN
    ELSE IF a.k = "inf" THEN (IF b.k = "inf" /\ b.s # a.s THEN NaN ELSE a)
    ELSE IF b.k = "inf" THEN b
    ELSE LET x == a.s * a.n * b.d + b.s * b.n * a.d
         IN  IF x = 0 THEN Fin(IF a.s = -1 /\ b.s = -1 THEN -1 ELSE 1, 0, 1)
             ELSE IF x < 0 THEN Fin(-1, -x, a.d * b.d)
             ELSE Fin(1, x, a.d * b.d)

\* mutant of DSub: the subtraction adds
DSub_adds(a, b) == DAdd(a, b)

\* left - right
DSub(a, b) == DAdd(a, Neg(b))

\* left * right
DMul(a, b) ==
    IF a.k = "nan" \/ b.k = "nan" THEN NaN
    ELSE IF a.k = "inf" \/ b.k = "inf"
    THEN (IF IsZero(a) \/ IsZero(b) THEN NaN ELSE Inf(a.s * b.s))
    ELSE Fin(a.s * b.s, a.n * b.n, a.d * b.d)

\* left / right: division by zero is what the host's double division yields
DDiv(a, b) ==
    IF a.k = "nan" \/ b.k = "nan" THEN NaN
    ELSE IF a.k = "inf" THEN (IF b.k = "inf" THEN NaN ELSE Inf(a.s * b.s))
    ELSE IF b.k = "inf" THEN Fin(a.s * b.s, 0, 1)
    ELSE IF IsZero(b) THEN (IF IsZero(a) THEN NaN ELSE Inf(a.s * b.s))
    ELSE Fin(a.s * b.s, a.n * b.d, a.d * b.n)

\* left < right
DLess(a, b) ==
    IF a.k = "nan" \/ b.k = "nan" THEN FALSE
    ELSE IF a.k = "inf" THEN a.s = -1 /\ ~(b.k = "inf" /\ b.s = -1)
    ELSE IF b.k = "inf" THEN b.s = 1
    ELSE a.s * a.n * b.d < b.s * b.n * a.d

\* left == right
DEqual(a, b) ==
    IF a.k = "nan" \/ b.k = "nan" THEN FALSE
    ELSE IF a.k = "inf" \/ b.k = "inf" THEN a.k = b.k /\ a.s = b.s
    ELSE a.s * a.n * b.d = b.s * b.n * a.d

DigitVal(c) ==
    CASE c = "0" -> 0 [] c = "1" -> 1 [] c = "2" -> 2 [] c = "3" -> 3 [] c = "4" -> 4
      [] c = "5" -> 5 [] c = "6" -> 6 [] c = "7" -> 7 [] c = "8" -> 8 [] c = "9" -> 9

DigitChar(i) == <<"0", "1", "2", "3", "4", "5", "6", "7", "8", "9">>[i + 1]

\* The decimal digits of 2^1024 - 2^970, the least integer that rounds above DBL_MAX:
\* strtod reports ERANGE from there on, and std::stod then throws std::out_of_range.
DBL_OVERFLOW ==
    <<"1", "7", "9", "7", "6", "9", "3", "1", "3", "4", "8", "6", "2", "3", "1", "5",
       "8", "0", "7", "9", "3", "7", "2", "8", "9", "7", "1", "4", "0", "5", "3", "0",
       "3", "4", "1", "5", "0", "7", "9", "9", "3", "4", "1", "3", "2", "7", "1", "0",
       "0", "3", "7", "8", "2", "6", "9", "3", "6", "1", "7", "3", "7", "7", "8", "9",
       "8", "0", "4", "4", "4", "9", "6", "8", "2", "9", "2", "7", "6", "4", "7", "5",
       "0", "9", "4", "6", "6", "4", "9", "0", "1", "7", "9", "7", "7", "5", "8", "7",
       "2", "0", "7", "0", "9", "6", "3", "3", "0", "2", "8", "6", "4", "1", "6", "6",
       "9", "2", "8", "8", "7", "9", "1", "0", "9", "4", "6", "5", "5", "5", "5", "4",
       "7", "8", "5", "1", "9", "4", "0", "4", "0", "2", "6", "3", "0", "6", "5", "7",
       "4", "8", "8", "6", "7", "1", "5", "0", "5", "8", "2", "0", "6", "8", "1", "9",
       "0", "8", "9", "0", "2", "0", "0", "0", "7", "0", "8", "3", "8", "3", "6", "7",
       "6", "2", "7", "3", "8", "5", "4", "8", "4", "5", "8", "1", "7", "7", "1", "1",
       "5", "3", "1", "7", "6", "4", "4", "7", "5", "7", "3", "0", "2", "7", "0", "0",
       "6", "9", "8", "5", "5", "5", "7", "1", "3", "6", "6", "9", "5", "9", "6", "2",
       "2", "8", "4", "2", "9", "1", "4", "8", "1", "9", "8", "6", "0", "8", "3", "4",
       "9", "3", "6", "4", "7", "5", "2", "9", "2", "7", "1", "9", "0", "7", "4", "1",
       "6", "8", "4", "4", "4", "3", "6", "5", "5", "1", "0", "7", "0", "4", "3", "4",
       "2", "7", "1", "1", "5", "5", "9", "6", "9", "9", "5", "0", "8", "0", "9", "3",
       "0", "4", "2", "8", "8", "0", "1", "7", "7", "9", "0", "4", "1", "7", "4", "4",
       "9", "7", "7", "9", "2">>

\* the number of leading digits of text
DigitPrefix(text) == ScanWhile(text, 0, isdigit)

\* a nonempty digit string without its leading zeros (one digit is always kept)
iszero(c) == c = "0"
StripZeros(digits) ==
    SubSeq(digits, ScanWhile(SubSeq(digits, 1, Len(digits) - 1), 0, iszero) + 1, Len(digits))

\* digit strings of equal length: a >= b
DigitsGeq(a, b) ==
    \/ a = b
    \/ \E i \in 1..Len(a) : /\ DigitVal(a[i]) > DigitVal(b[i])
                            /\ \A j \in 1..(i - 1) : a[j] = b[j]

RECURSIVE IntOf(_)
IntOf(digits) ==
    IF digits = <<>> THEN 0
    ELSE IntOf(SubSeq(digits, 1, Len(digits) - 1)) * 10 + DigitVal(digits[Len(digits)])

\* std::stod(text) on the texts the lexer can cut (digits, letters): the value of
\* the leading digits; std::invalid_argument when there is none, std::out_of_range
\* when the number does not fit a double.  Both are std::logic_error.
stod(text) ==
    LET digits == StripZeros(SubSeq(text, 1, DigitPrefix(text)))
    IN  IF DigitPrefix(text) = 0
        THEN [ok |-> FALSE, val |-> NaN, err |-> [kind |-> "invalid_argument", what |-> "stod"]]
        ELSE IF Len(digits) > Len(DBL_OVERFLOW)
                \/ (Len(digits) = Len(DBL_OVERFLOW) /\ DigitsGeq(digits, DBL_OVERFLOW))
        THEN [ok |-> FALSE, val |-> NaN, err |-> [kind |-> "out_of_range", what |-> "stod"]]
        ELSE [ok |-> TRUE, val |-> Num(IntOf(digits)), err |-> NoError]

RECURSIVE Digits(_)
Digits(i) == IF i < 10 THEN <<DigitChar(i)>> ELSE Append(Digits(i \div 10), DigitChar(i % 10))

\* std::cout << value with the default format (%g, precision 6): an integral value
\* below 10^6 prints as its digits; for other finite values the text the stream
\* rounds to is not spelled out (the exact value is kept behind a "%g" mark), and
\* neither is the sign the platform prints for a NaN.
Format(v) ==
    IF v.k = "nan" THEN <<"nan">>
    ELSE IF v.k = "inf"
    THEN (IF v.s = -1 THEN <<"-", "i", "n", "f">> ELSE <<"i", "n", "f">>)
    ELSE IF v.d = 1 /\ v.n < 1000000
    THEN (IF v.s = -1 THEN <<"-">> ELSE <<>>) \o Digits(v.n)
    ELSE <<"%g">> \o (IF v.s = -1 THEN <<"-">> ELSE <<>>) \o Digits(v.n) \o <<"/">> \o Digits(v.d)

(***************************************************************************)
(* PART 4 of Parser.cpp: class Interpreter                                 *)
(* evaluate returns [ok, val, env, err]: env is the environment after the  *)
(* call, also when it throws (the map is changed in place).                *)
(***************************************************************************)
EmptyEnv == [n \in {} |-> NaN]

\* environment.count(name)
Bound(env, name) == name \in DOMAIN env

\* mutant of Store: the map is replaced by the one binding
Store_only(env, name, value) == [n \in {name} |-> value]

\* environment[name] = value
Store(env, name, value) ==
    [n \in (DOMAIN env) \cup {name} |-> IF n = name THEN value ELSE env[n]]

\* mutant of UndefinedVariable: the message does not name the variable
UndefinedVariable_unnamed(name) ==
    [kind |-> "runtime_error", what |-> <<"Undefined variable '">> \o <<"'.">>]

\* throw std::runtime_error("Undefined variable '" + name + "'.")
UndefinedVariable(name) ==
    [kind |-> "runtime_error", what |-> <<"Undefined variable '">> \o name \o <<"'.">>]

\* the switch of evaluate over e->op.type; a type it does not list falls to `return 0.0`
apply_op(type, left, right) ==
    CASE type = "PLUS"          -> DAdd(left, right)
      [] type = "MINUS"         -> DSub(left, right)
      [] type = "STAR"          -> DMul(left, right)
      [] type = "SLASH"         -> DDiv(left, right)
      [] type = "GREATER"       -> Bool(DLess(right, left))
      [] type = "GREATER_EQUAL" -> Bool(DLess(right, left) \/ DEqual(left, right))
      [] type = "LESS"          -> Bool(DLess(left, right))
      [] type = "LESS_EQUAL"    -> Bool(DLess(left, right) \/ DEqual(left, right))
      [] type = "EQUAL_EQUAL"   -> Bool(DEqual(left, right))
      [] type = "BANG_EQUAL"    -> Bool(~DEqual(left, right))
      [] OTHER                  -> Num(0)

RECURSIVE evaluate(_, _)
\* mutant of evaluate: the right operand of a binary expression is evaluated first
evaluate_right_first(expr, env) ==
    CASE expr.tag = "LiteralExpr" ->
           LET r == stod(expr.value.literal)
           IN  [ok |-> r.ok, val |-> r.val, env |-> env, err |-> r.err]
      [] expr.tag = "VariableExpr" ->
           IF Bound(env, expr.name.literal)
           THEN [ok |-> TRUE, val |-> env[expr.name.literal], env |-> env, err |-> NoError]
           ELSE [ok |-> FALSE, val |-> NaN, env |-> env,
                 err |-> UndefinedVariable(expr.name.literal)]
      [] expr.tag = "AssignExpr" ->
           LET value == evaluate(expr.value, env)
           IN  IF ~value.ok THEN value
               ELSE IF Bound(value.env, expr.name.literal)
               THEN [ok |-> TRUE, val |-> value.val,
                     env |-> Store(value.env, expr.name.literal, value.val), err |-> NoError]
               ELSE [ok |-> FALSE, val |-> NaN, env |-> value.env,
                     err |-> UndefinedVariable(expr.name.literal)]
      [] expr.tag = "BinaryExpr" ->
           LET right == evaluate(expr.right, env)
           IN  IF ~right.ok THEN right
               ELSE LET left == evaluate(expr.left, right.env)
                    IN  IF ~left.ok THEN left
                        ELSE [ok |-> TRUE, val |-> apply_op(expr.op.type, left.val, right.val),
                              env |-> left.env, err |-> NoError]
      [] OTHER -> [ok |-> TRUE, val |-> Num(0), env |-> env, err |-> NoError]

evaluate(expr, env) ==
    CASE expr.tag = "LiteralExpr" ->
           LET r == stod(expr.value.literal)
           IN  [ok |-> r.ok, val |-> r.val, env |-> env, err |-> r.err]
      [] expr.tag = "VariableExpr" ->
           IF Bound(env, expr.name.literal)
           THEN [ok |-> TRUE, val |-> env[expr.name.literal], env |-> env, err |-> NoError]
           ELSE [ok |-> FALSE, val |-> NaN, env |-> env,
                 err |-> UndefinedVariable(expr.name.literal)]
      [] expr.tag = "AssignExpr" ->
           LET value == evaluate(expr.value, env)
           IN  IF ~value.ok THEN value
               ELSE IF Bound(value.env, expr.name.literal)
               THEN [ok |-> TRUE, val |-> value.val,
                     env |-> Store(value.env, expr.name.literal, value.val), err |-> NoError]
               ELSE [ok |-> FALSE, val |-> NaN, env |-> value.env,
                     err |-> UndefinedVariable(expr.name.literal)]
      [] expr.tag = "BinaryExpr" ->
           LET left == evaluate(expr.left, env)
           IN  IF ~left.ok THEN left
               ELSE LET right == evaluate(expr.right, left.env)
                    IN  IF ~right.ok THEN right
                        ELSE [ok |-> TRUE, val |-> apply_op(expr.op.type, left.val, right.val),
                              env |-> right.env, err |-> NoError]
      [] OTHER -> [ok |-> TRUE, val |-> Num(0), env |-> env, err |-> NoError]

\* mutant of Truthy: only a positive condition selects the then-branch
Truthy_positive(condition) == DLess(Num(0), condition)

\* if (condition != 0)
Truthy(condition) == ~DEqual(condition, Num(0))

\* One record of trace per execute() call: the statement, its nesting depth, and what
\* the call's own expression evaluated to (the condition of an if, the value printed,
\* stored or discarded).
NoValue == [k |-> "none", s |-> 1, n |-> 0, d |-> 0]
Call(stmt, depth, r) ==
    [stmt |-> stmt, depth |-> depth, val |-> IF r.ok THEN r.val ELSE NoValue]

\* execute works on st = [env, out, trace] and returns [ok, env, out, trace, err].
RECURSIVE execute(_, _, _), execute_all(_, _, _)

\* the state after the statement's own expression has been evaluated to r,
\* with the execute() call recorded
Evaluated(stmt, st, depth, r) ==
    [env |-> r.env, out |-> st.out, trace |-> Append(st.trace, Call(stmt, depth, r))]

\* execute returns normally from state st / is left by the exception err
Return(st)       == [ok |-> TRUE, env |-> st.env, out |-> st.out, trace |-> st.trace,
                     err |-> NoError]
Raise(st, err)   == [ok |-> FALSE, env |-> st.env, out |-> st.out, trace |-> st.trace,
                     err |-> err]

\* evaluate(s->expression.get());
execute_expression(stmt, st, depth, r) ==
    IF r.ok THEN Return(Evaluated(stmt, st, depth, r))
    ELSE Raise(Evaluated(stmt, st, depth, r), r.err)

\* double value = evaluate(...); std::cout << value << std::endl;
execute_print(stmt, st, depth, r) ==
    IF r.ok
    THEN Return([Evaluated(stmt, st, depth, r) EXCEPT !.out = Append(@, Format(r.val))])
    ELSE Raise(Evaluated(stmt, st, depth, r), r.err)

\* double value = 0.0; if (s->initializer) value = evaluate(...);
let_value(stmt, env) ==
    IF stmt.initializer # Null THEN evaluate(stmt.initializer, env)
    ELSE [ok |-> TRUE, val |-> Num(0), env |-> env, err |-> NoError]

\* mutant of execute_let: a name already bound keeps its value
execute_let_once(stmt, st, depth, r) ==
    IF r.ok
    THEN Return([Evaluated(stmt, st, depth, r) EXCEPT
                    !.env = IF Bound(@, stmt.name.literal) THEN @
                            ELSE Store(@, stmt.name.literal, r.val)])
    ELSE Raise(Evaluated(stmt, st, depth, r), r.err)

\* environment[s->name.literal] = value;
execute_let(stmt, st, depth, r) ==
    IF r.ok
    THEN Return([Evaluated(stmt, st, depth, r) EXCEPT
                    !.env = Store(@, stmt.name.literal, r.val)])
    ELSE Raise(Evaluated(stmt, st, depth, r), r.err)

\* double condition = evaluate(...); if (condition != 0) ... else if (s->elseBranch) ...
execute_if(stmt, st, depth, r) ==
    IF ~r.ok THEN Raise(Evaluated(stmt, st, depth, r), r.err)
    ELSE IF Truthy(r.val)
    THEN execute(stmt.thenBranch, Evaluated(stmt, st, depth, r), depth + 1)
    ELSE IF stmt.elseBranch # Null
    THEN execute(stmt.elseBranch, Evaluated(stmt, st, depth, r), depth + 1)
    ELSE Return(Evaluated(stmt, st, depth, r))

\* the bindings of r cut down to the names bound in st
Scoped(st, r) == [r EXCEPT !.env = [n \in (DOMAIN st.env) \cap (DOMAIN @) |-> @[n]]]

\* mutant of execute_block: the names declared in the block end with it
execute_block_scoped(stmt, st, depth) ==
    Scoped(st, execute_all(stmt.statements,
                           [st EXCEPT !.trace = Append(@, Call(stmt, depth, [ok |-> FALSE]))],
                           depth + 1))

\* for (const auto& st : s->statements) execute(st.get()); on the one environment
execute_block(stmt, st, depth) ==
    execute_all(stmt.statements,
                [st EXCEPT !.trace = Append(@, Call(stmt, depth, [ok |-> FALSE]))],
                depth + 1)

execute(stmt, st, depth) ==
    CASE stmt.tag = "ExpressionStmt" ->
           execute_expression(stmt, st, depth, evaluate(stmt.expression, st.env))
      [] stmt.tag = "PrintStmt" ->
           execute_print(stmt, st, depth, evaluate(stmt.expression, st.env))
      [] stmt.tag = "LetStmt" ->
           execute_let(stmt, st, depth, let_value(stmt, st.env))
      [] stmt.tag = "BlockStmt" ->
           execute_block(stmt, st, depth)
      [] stmt.tag = "IfStmt" ->
           execute_if(stmt, st, depth, evaluate(stmt.condition, st.env))
      [] OTHER -> Return(st)

\* the rest of a statement loop after one execute() call returned or threw r
execute_rest(stmts, r, depth) ==
    IF r.ok THEN execute_all(stmts, [env |-> r.env, out |-> r.out, trace |-> r.trace], depth)
    ELSE r

\* for (const auto& st : s->statements) execute(st.get()); an exception ends the loop
execute_all(stmts, st, depth) ==
    IF stmts = <<>> THEN Return(st)
    ELSE execute_rest(Tail(stmts), execute(Head(stmts), st, depth), depth)

(***************************************************************************)
(* The state machine                                                       *)
(***************************************************************************)
\* tokenize of Parser.cpp: one iteration of `while (current < source.length())`
CppLexStep ==
    /\ pc = "lex" /\ which = "cpp"
    /\ lx.current < Len(source)
    /\ \E r \in {tokenize_step(source, lx, tokens)} :
           lx' = r.lx /\ tokens' = r.tokens
    /\ UNCHANGED <<first, which, source, keywords, pc, m_current, statements, perr, idx,
                   environment, output, trace, rerr, uncaught>>

\* tokenize of Parser.cpp leaves its loop, appends the sentinel and returns;
\* main hands the vector to a Parser
CppLexFinish ==
    /\ pc = "lex" /\ which = "cpp"
    /\ ~(lx.current < Len(source))
    /\ tokens' = tokenize_finish(tokens, lx.line)
    /\ pc' = "parse"
    /\ UNCHANGED <<first, which, source, keywords, lx, m_current, statements, perr, idx,
                   environment, output, trace, rerr, uncaught>>

\* Tokenizer::tokenize: one iteration of `while (!is_at_end())`
HppLexStep ==
    /\ pc = "lex" /\ which = "hpp"
    /\ ~Tokenizer_is_at_end(source, lx)
    /\ \E r \in {Tokenizer_step(source, keywords, lx, tokens)} :
           lx' = r.lx /\ tokens' = r.tokens
    /\ UNCHANGED <<first, which, source, keywords, pc, m_current, statements, perr, idx,
                   environment, output, trace, rerr, uncaught>>

\* Tokenizer::tokenize leaves its loop, appends the sentinel and returns
HppLexFinish ==
    /\ pc = "lex" /\ which = "hpp"
    /\ Tokenizer_is_at_end(source, lx)
    /\ tokens' = Tokenizer_finish(tokens, lx.line)
    /\ pc' = "lexed"
    /\ UNCHANGED <<first, which, source, keywords, lx, m_current, statements, perr, idx,
                   environment, output, trace, rerr, uncaught>>

\* mutant of ParseStep: the declaration is parsed on a copy of the cursor, which is
\* not stored back
ParseStep_copy ==
    /\ pc = "parse"
    /\ peek(tokens, m_current).type # EOF_TYPE
    /\ \E d \in {declaration(tokens, m_current)} :
           /\ m_current' = m_current
           /\ IF d.ok
              THEN statements' = Append(statements, d.node) /\ perr' = perr /\ pc' = pc
              ELSE statements' = <<>> /\ perr' = d.err /\ pc' = "parse_threw"
    /\ UNCHANGED <<first, which, source, keywords, lx, tokens, idx, environment, output,
                   trace, rerr, uncaught>>

\* Parser::parse: one iteration of `while (peek().type != END_OF_FILE)`.
\* declaration() either returns a node, which is pushed, or throws; parse has no
\* handler, so the exception leaves parse and its local vector is destroyed.
ParseStep ==
    /\ pc = "parse"
    /\ peek(tokens, m_current).type # EOF_TYPE
    /\ \E d \in {declaration(tokens, m_current)} :
           /\ m_current' = d.cur
           /\ IF d.ok
              THEN statements' = Append(statements, d.node) /\ perr' = perr /\ pc' = pc
              ELSE statements' = <<>> /\ perr' = d.err /\ pc' = "parse_threw"
    /\ UNCHANGED <<first, which, source, keywords, lx, tokens, idx, environment, output,
                   trace, rerr, uncaught>>

\* Parser::parse returns the vector; main hands it to Interpreter::interpret
ParseReturn ==
    /\ pc = "parse"
    /\ peek(tokens, m_current).type = EOF_TYPE
    /\ pc' = "interp"
    /\ UNCHANGED <<first, which, source, keywords, lx, tokens, m_current, statements, perr,
                   idx, environment, output, trace, rerr, uncaught>>

\* Interpreter::interpret: one iteration of the for loop inside the try block.
\* A std::runtime_error is caught (reported, and interpret returns); any other
\* exception leaves interpret.
InterpStep ==
    /\ pc = "interp"
    /\ idx < Len(statements)
    /\ \E r \in {execute(statements[idx + 1],
                        [env |-> environment, out |-> output, trace |-> trace], 0)} :
           /\ environment' = r.env /\ output' = r.out /\ trace' = r.trace
           /\ idx' = idx + 1
           /\ IF r.ok THEN pc' = pc /\ rerr' = rerr /\ uncaught' = uncaught
              ELSE IF r.err.kind = "runtime_error"
              THEN pc' = "done" /\ rerr' = r.err /\ uncaught' = uncaught
              ELSE pc' = "interp_threw" /\ rerr' = rerr /\ uncaught' = r.err
    /\ UNCHANGED <<first, which, source, keywords, lx, tokens, m_current, statements, perr>>

\* the for loop of interpret is over: interpret returns
InterpReturn ==
    /\ pc = "interp"
    /\ idx = Len(statements)
    /\ pc' = "done"
    /\ UNCHANGED <<first, which, source, keywords, lx, tokens, m_current, statements, perr,
                   idx, environment, output, trace, rerr, uncaught>>

(***************************************************************************)
(* Source texts the driver is run on                                       *)
(***************************************************************************)
\* the end-to-end example
\*   let a = 10; let b = 0; if (a > 5) { b = a*2 + (a/5); print b; } else { print 999; } let c = b - 2; print c;
SrcEndToEnd ==
    <<"l", "e", "t", " ", "a", " ", "=", " ", "1", "0", ";", " ", "l", "e", "t", " ",
      "b", " ", "=", " ", "0", ";", " ", "i", "f", " ", "(", "a", " ", ">", " ", "5",
      ")", " ", "{", " ", "b", " ", "=", " ", "a", "*", "2", " ", "+", " ", "(", "a",
      "/", "5", ")", ";", " ", "p", "r", "i", "n", "t", " ", "b", ";", " ", "}", " ",
      "e", "l", "s", "e", " ", "{", " ", "p", "r", "i", "n", "t", " ", "9", "9", "9",
      ";", " ", "}", " ", "l", "e", "t", " ", "c", " ", "=", " ", "b", " ", "-", " ",
      "2", ";", " ", "p", "r", "i", "n", "t", " ", "c", ";">>

\* the source text of main (Parser.cpp:473-486), with its // comments and newlines
SrcMain ==
    <<"\n", " ", " ", " ", " ", " ", " ", " ", " ", "l", "e", "t", " ", "a", " ", "=",
      " ", "1", "0", ";", "\n", " ", " ", " ", " ", " ", " ", " ", " ", "l", "e", "t",
      " ", "b", " ", "=", " ", "0", ";", "\n", "\n", " ", " ", " ", " ", " ", " ", " ",
      " ", "i", "f", " ", "(", "a", " ", ">", " ", "5", ")", " ", "{", "\n", " ", " ",
      " ", " ", " ", " ", " ", " ", " ", " ", " ", " ", "b", " ", "=", " ", "a", " ",
      "*", " ", "2", " ", "+", " ", "(", "a", " ", "/", " ", "5", ")", ";", " ", "/",
      "/", " ", "b", " ", "s", "h", "o", "u", "l", "d", " ", "b", "e", "c", "o", "m",
      "e", " ", "1", "0", "*", "2", " ", "+", " ", "2", " ", "=", " ", "2", "2", "\n",
      " ", " ", " ", " ", " ", " ", " ", " ", " ", " ", " ", " ", "p", "r", "i", "n",
      "t", " ", "b", ";", "\n", " ", " ", " ", " ", " ", " ", " ", " ", "}", " ", "e",
      "l", "s", "e", " ", "{", "\n", " ", " ", " ", " ", " ", " ", " ", " ", " ", " ",
      " ", " ", "p", "r", "i", "n", "t", " ", "9", "9", "9", ";", " ", "/", "/", " ",
      "T", "h", "i", "s", " ", "p", "a", "r", "t", " ", "s", "h", "o", "u", "l", "d",
      " ", "n", "o", "t", " ", "r", "u", "n", "\n", " ", " ", " ", " ", " ", " ", " ",
      " ", "}", "\n", "\n", " ", " ", " ", " ", " ", " ", " ", " ", "l", "e", "t", " ",
      "c", " ", "=", " ", "b", " ", "-", " ", "2", ";", " ", "/", "/", " ", "c", " ",
      "s", "h", "o", "u", "l", "d", " ", "b", "e", " ", "2", "2", " ", "-", " ", "2",
      " ", "=", " ", "2", "0", "\n", " ", " ", " ", " ", " ", " ", " ", " ", "p", "r",
      "i", "n", "t", " ", "c", ";", "\n", " ", " ", " ", " ">>

\*   2 + 3 * 4;
SrcPrec1 ==
    <<"2", " ", "+", " ", "3", " ", "*", " ", "4", ";">>

\*   (2 + 3) * 4;
SrcPrec2 ==
    <<"(", "2", " ", "+", " ", "3", ")", " ", "*", " ", "4", ";">>

\*   a = b = 5;
SrcAssoc ==
    <<"a", " ", "=", " ", "b", " ", "=", " ", "5", ";">>

\*   let a; let b; a = b = 5; print a; print b;
SrcAssocRun ==
    <<"l", "e", "t", " ", "a", ";", " ", "l", "e", "t", " ", "b", ";", " ", "a", " ",
      "=", " ", "b", " ", "=", " ", "5", ";", " ", "p", "r", "i", "n", "t", " ", "a",
      ";", " ", "p", "r", "i", "n", "t", " ", "b", ";">>

\*   10 = 5;
SrcBadTarget ==
    <<"1", "0", " ", "=", " ", "5", ";">>

\*   let a; a + 1 = 5; print a;
SrcBadTarget2 ==
    <<"l", "e", "t", " ", "a", ";", " ", "a", " ", "+", " ", "1", " ", "=", " ", "5",
      ";", " ", "p", "r", "i", "n", "t", " ", "a", ";">>

\*   if (0) print 1; else print 2;
SrcIf0 ==
    <<"i", "f", " ", "(", "0", ")", " ", "p", "r", "i", "n", "t", " ", "1", ";", " ",
      "e", "l", "s", "e", " ", "p", "r", "i", "n", "t", " ", "2", ";">>

\*   if (1) print 1; else print 2;
SrcIf1 ==
    <<"i", "f", " ", "(", "1", ")", " ", "p", "r", "i", "n", "t", " ", "1", ";", " ",
      "e", "l", "s", "e", " ", "p", "r", "i", "n", "t", " ", "2", ";">>

\*   print 7; if (0) print 1; print 8;
SrcIfNoElse0 ==
    <<"p", "r", "i", "n", "t", " ", "7", ";", " ", "i", "f", " ", "(", "0", ")", " ",
      "p", "r", "i", "n", "t", " ", "1", ";", " ", "p", "r", "i", "n", "t", " ", "8",
      ";">>

\*   print 7; if (3) print 1; print 8;
SrcIfNoElse1 ==
    <<"p", "r", "i", "n", "t", " ", "7", ";", " ", "i", "f", " ", "(", "3", ")", " ",
      "p", "r", "i", "n", "t", " ", "1", ";", " ", "p", "r", "i", "n", "t", " ", "8",
      ";">>

\*   if (0 - 1) print 1; else print 2;
SrcIfNeg ==
    <<"i", "f", " ", "(", "0", " ", "-", " ", "1", ")", " ", "p", "r", "i", "n", "t",
      " ", "1", ";", " ", "e", "l", "s", "e", " ", "p", "r", "i", "n", "t", " ", "2",
      ";">>

\*   if (0 * (0 - 1)) print 1; else print 2;
SrcIfNegZero ==
    <<"i", "f", " ", "(", "0", " ", "*", " ", "(", "0", " ", "-", " ", "1", ")", ")",
      " ", "p", "r", "i", "n", "t", " ", "1", ";", " ", "e", "l", "s", "e", " ", "p",
      "r", "i", "n", "t", " ", "2", ";">>

\*   if (0 / 0) print 1; else print 2;
SrcIfNaN ==
    <<"i", "f", " ", "(", "0", " ", "/", " ", "0", ")", " ", "p", "r", "i", "n", "t",
      " ", "1", ";", " ", "e", "l", "s", "e", " ", "p", "r", "i", "n", "t", " ", "2",
      ";">>

\*   if (x) print 1; else print 2; print 3;
SrcIfUndef ==
    <<"i", "f", " ", "(", "x", ")", " ", "p", "r", "i", "n", "t", " ", "1", ";", " ",
      "e", "l", "s", "e", " ", "p", "r", "i", "n", "t", " ", "2", ";", " ", "p", "r",
      "i", "n", "t", " ", "3", ";">>

\*   if (1) if (0) print 1; else print 2; else print 3;
SrcIfNested ==
    <<"i", "f", " ", "(", "1", ")", " ", "i", "f", " ", "(", "0", ")", " ", "p", "r",
      "i", "n", "t", " ", "1", ";", " ", "e", "l", "s", "e", " ", "p", "r", "i", "n",
      "t", " ", "2", ";", " ", "e", "l", "s", "e", " ", "p", "r", "i", "n", "t", " ",
      "3", ";">>

\*   let a = 2; if (a < 1) { print 1; a = 5; } else { print 3; let b = a; print b; } print a;
SrcIfBlocks ==
    <<"l", "e", "t", " ", "a", " ", "=", " ", "2", ";", " ", "i", "f", " ", "(", "a",
      " ", "<", " ", "1", ")", " ", "{", " ", "p", "r", "i", "n", "t", " ", "1", ";",
      " ", "a", " ", "=", " ", "5", ";", " ", "}", " ", "e", "l", "s", "e", " ", "{",
      " ", "p", "r", "i", "n", "t", " ", "3", ";", " ", "l", "e", "t", " ", "b", " ",
      "=", " ", "a", ";", " ", "p", "r", "i", "n", "t", " ", "b", ";", " ", "}", " ",
      "p", "r", "i", "n", "t", " ", "a", ";">>

\*   let a = 1; if (a = 0) print 1; else { if (a) print 2; else print 3; }
SrcIfAssignCond ==
    <<"l", "e", "t", " ", "a", " ", "=", " ", "1", ";", " ", "i", "f", " ", "(", "a",
      " ", "=", " ", "0", ")", " ", "p", "r", "i", "n", "t", " ", "1", ";", " ", "e",
      "l", "s", "e", " ", "{", " ", "i", "f", " ", "(", "a", ")", " ", "p", "r", "i",
      "n", "t", " ", "2", ";", " ", "e", "l", "s", "e", " ", "p", "r", "i", "n", "t",
      " ", "3", ";", " ", "}">>

\* two statements, each without its semicolon
\*   print 1 print 2
SrcTwoErrors ==
    <<"p", "r", "i", "n", "t", " ", "1", " ", "p", "r", "i", "n", "t", " ", "2">>

\*   let = 1; print 2; print ; print 3;
SrcTwoErrors2 ==
    <<"l", "e", "t", " ", "=", " ", "1", ";", " ", "p", "r", "i", "n", "t", " ", "2",
      ";", " ", "p", "r", "i", "n", "t", " ", ";", " ", "p", "r", "i", "n", "t", " ",
      "3", ";">>

\*   1 + ; print 2;
SrcErrThenOk ==
    <<"1", " ", "+", " ", ";", " ", "p", "r", "i", "n", "t", " ", "2", ";">>

\*   { print 1;
SrcUnclosed ==
    <<"{", " ", "p", "r", "i", "n", "t", " ", "1", ";">>

\*   print 1; print x; print 2;
SrcRuntime1 ==
    <<"p", "r", "i", "n", "t", " ", "1", ";", " ", "p", "r", "i", "n", "t", " ", "x",
      ";", " ", "p", "r", "i", "n", "t", " ", "2", ";">>

\*   print 1; { print 2; x = 1; print 3; } print 4;
SrcRuntime2 ==
    <<"p", "r", "i", "n", "t", " ", "1", ";", " ", "{", " ", "p", "r", "i", "n", "t",
      " ", "2", ";", " ", "x", " ", "=", " ", "1", ";", " ", "p", "r", "i", "n", "t",
      " ", "3", ";", " ", "}", " ", "p", "r", "i", "n", "t", " ", "4", ";">>

\*   let a = 1; print a; a = b; let c = 2; print 3;
SrcRuntime3 ==
    <<"l", "e", "t", " ", "a", " ", "=", " ", "1", ";", " ", "p", "r", "i", "n", "t",
      " ", "a", ";", " ", "a", " ", "=", " ", "b", ";", " ", "l", "e", "t", " ", "c",
      " ", "=", " ", "2", ";", " ", "p", "r", "i", "n", "t", " ", "3", ";">>

\*   let a = 1; print (a = 5) + x; print a; let b = 2;
SrcRuntime4 ==
    <<"l", "e", "t", " ", "a", " ", "=", " ", "1", ";", " ", "p", "r", "i", "n", "t",
      " ", "(", "a", " ", "=", " ", "5", ")", " ", "+", " ", "x", ";", " ", "p", "r",
      "i", "n", "t", " ", "a", ";", " ", "l", "e", "t", " ", "b", " ", "=", " ", "2",
      ";">>

\*   let a = 1; if (a) { let b = 2; print b + c; let d = 3; } else print 0; print a;
SrcRuntime5 ==
    <<"l", "e", "t", " ", "a", " ", "=", " ", "1", ";", " ", "i", "f", " ", "(", "a",
      ")", " ", "{", " ", "l", "e", "t", " ", "b", " ", "=", " ", "2", ";", " ", "p",
      "r", "i", "n", "t", " ", "b", " ", "+", " ", "c", ";", " ", "l", "e", "t", " ",
      "d", " ", "=", " ", "3", ";", " ", "}", " ", "e", "l", "s", "e", " ", "p", "r",
      "i", "n", "t", " ", "0", ";", " ", "p", "r", "i", "n", "t", " ", "a", ";">>

\* a literal of HugeDigits digits, more than a double holds
HugeDigits == 310

Repeat(c, n) == [i \in 1..n |-> c]

\*   print 1; print 99...9; print 2;
SrcHuge ==
    <<"p", "r", "i", "n", "t", " ", "1", ";", " ", "p", "r", "i", "n", "t", " ">> \o Repeat("9", HugeDigits)
        \o <<";", " ", "p", "r", "i", "n", "t", " ", "2", ";">>

\*   
SrcEmpty == <<>>

\*    \t\r\n
SrcBlank ==
    <<" ", "\t", "\r", "\n">>

\*   print 1 / 0; print 7 / 2; print 0 - 1 / 0;
SrcDivide ==
    <<"p", "r", "i", "n", "t", " ", "1", " ", "/", " ", "0", ";", " ", "p", "r", "i",
      "n", "t", " ", "7", " ", "/", " ", "2", ";", " ", "p", "r", "i", "n", "t", " ",
      "0", " ", "-", " ", "1", " ", "/", " ", "0", ";">>

\*   10 - 3 - 2;
SrcLeft1 ==
    <<"1", "0", " ", "-", " ", "3", " ", "-", " ", "2", ";">>

\*   8 / 4 / 2;
SrcLeft2 ==
    <<"8", " ", "/", " ", "4", " ", "/", " ", "2", ";">>

\*   -a * b;
SrcUnary ==
    <<"-", "a", " ", "*", " ", "b", ";">>

\*   let a = 1; { let b = 2; let a = 3; print a; } print a; print b;
SrcScope ==
    <<"l", "e", "t", " ", "a", " ", "=", " ", "1", ";", " ", "{", " ", "l", "e", "t",
      " ", "b", " ", "=", " ", "2", ";", " ", "l", "e", "t", " ", "a", " ", "=", " ",
      "3", ";", " ", "p", "r", "i", "n", "t", " ", "a", ";", " ", "}", " ", "p", "r",
      "i", "n", "t", " ", "a", ";", " ", "p", "r", "i", "n", "t", " ", "b", ";">>

\*   let a = 1; let b = 2; let a; print a; let b = a + 7; print b;
SrcRedeclare ==
    <<"l", "e", "t", " ", "a", " ", "=", " ", "1", ";", " ", "l", "e", "t", " ", "b",
      " ", "=", " ", "2", ";", " ", "l", "e", "t", " ", "a", ";", " ", "p", "r", "i",
      "n", "t", " ", "a", ";", " ", "l", "e", "t", " ", "b", " ", "=", " ", "a", " ",
      "+", " ", "7", ";", " ", "p", "r", "i", "n", "t", " ", "b", ";">>

\*   let a = 1; let b = 2; let c = (a = 5) + b; print a; print b; print c;
SrcLetAssigns ==
    <<"l", "e", "t", " ", "a", " ", "=", " ", "1", ";", " ", "l", "e", "t", " ", "b",
      " ", "=", " ", "2", ";", " ", "l", "e", "t", " ", "c", " ", "=", " ", "(", "a",
      " ", "=", " ", "5", ")", " ", "+", " ", "b", ";", " ", "p", "r", "i", "n", "t",
      " ", "a", ";", " ", "p", "r", "i", "n", "t", " ", "b", ";", " ", "p", "r", "i",
      "n", "t", " ", "c", ";">>

\*   let a = 1; let b = c; print a;
SrcLetFails ==
    <<"l", "e", "t", " ", "a", " ", "=", " ", "1", ";", " ", "l", "e", "t", " ", "b",
      " ", "=", " ", "c", ";", " ", "p", "r", "i", "n", "t", " ", "a", ";">>

\*   let a = a;
SrcLetSelf ==
    <<"l", "e", "t", " ", "a", " ", "=", " ", "a", ";">>

\*   let a = 1; { a = 2; { let c = a; print c; } let a = 7; } print a; print c; { print 1; print b; print 2; } print 3;
SrcBlocks ==
    <<"l", "e", "t", " ", "a", " ", "=", " ", "1", ";", " ", "{", " ", "a", " ", "=",
      " ", "2", ";", " ", "{", " ", "l", "e", "t", " ", "c", " ", "=", " ", "a", ";",
      " ", "p", "r", "i", "n", "t", " ", "c", ";", " ", "}", " ", "l", "e", "t", " ",
      "a", " ", "=", " ", "7", ";", " ", "}", " ", "p", "r", "i", "n", "t", " ", "a",
      ";", " ", "p", "r", "i", "n", "t", " ", "c", ";", " ", "{", " ", "p", "r", "i",
      "n", "t", " ", "1", ";", " ", "p", "r", "i", "n", "t", " ", "b", ";", " ", "p",
      "r", "i", "n", "t", " ", "2", ";", " ", "}", " ", "p", "r", "i", "n", "t", " ",
      "3", ";">>

\*   let a = 0; print (a = 5) + a;
SrcOrder1 ==
    <<"l", "e", "t", " ", "a", " ", "=", " ", "0", ";", " ", "p", "r", "i", "n", "t",
      " ", "(", "a", " ", "=", " ", "5", ")", " ", "+", " ", "a", ";">>

\*   print x + y;
SrcOrder2 ==
    <<"p", "r", "i", "n", "t", " ", "x", " ", "+", " ", "y", ";">>

\*   let a = 0; print a + (a = 5); print a;
SrcOrder3 ==
    <<"l", "e", "t", " ", "a", " ", "=", " ", "0", ";", " ", "p", "r", "i", "n", "t",
      " ", "a", " ", "+", " ", "(", "a", " ", "=", " ", "5", ")", ";", " ", "p", "r",
      "i", "n", "t", " ", "a", ";">>

Sources ==
    {SrcEndToEnd, SrcMain, SrcPrec1, SrcPrec2, SrcAssoc, SrcAssocRun, SrcBadTarget,
     SrcBadTarget2, SrcIf0, SrcIf1, SrcIfNoElse0, SrcIfNoElse1, SrcIfNeg,
     SrcIfNegZero, SrcIfNaN, SrcIfUndef, SrcIfNested, SrcIfBlocks, SrcIfAssignCond,
     SrcTwoErrors, SrcTwoErrors2, SrcErrThenOk, SrcUnclosed, SrcRuntime1,
     SrcRuntime2, SrcRuntime3, SrcRuntime4, SrcRuntime5, SrcHuge, SrcEmpty,
     SrcBlank, SrcDivide, SrcLeft1, SrcLeft2, SrcUnary, SrcScope, SrcRedeclare,
     SrcLetAssigns, SrcLetFails, SrcLetSelf, SrcBlocks, SrcOrder1, SrcOrder2,
     SrcOrder3}

(***************************************************************************)
(* Token vectors a caller hands to Parser directly                         *)
(***************************************************************************)
MaxOperand == 2    \* number literals of generated expressions are 0..MaxOperand
MaxTokLen  == 3    \* every token sequence up to this length is parsed

Tok(type, text) == [type |-> type, literal |-> text, line |-> 1]
EofTok          == Tok(EOF_TYPE, <<>>)
NumTok(i)       == Tok("NUMBER", Digits(i))
IdTok(name)     == Tok("IDENTIFIER", <<name>>)
Semi            == Tok("SEMICOLON", <<";">>)
Open            == Tok("OPEN_PAREN", <<"(">>)
Close           == Tok("CLOSE_PAREN", <<")">>)
Equal           == Tok("EQUAL", <<"=">>)
Let             == Tok("LET", <<"l", "e", "t">>)

BinaryOpToks ==
    { Tok("PLUS", <<"+">>), Tok("MINUS", <<"-">>), Tok("STAR", <<"*">>),
      Tok("SLASH", <<"/">>), Tok("GREATER", <<">">>), Tok("GREATER_EQUAL", <<">", "=">>),
      Tok("LESS", <<"<">>), Tok("LESS_EQUAL", <<"<", "=">>),
      Tok("EQUAL_EQUAL", <<"=", "=">>), Tok("BANG_EQUAL", <<"!", "=">>) }

Operands == { NumTok(i) : i \in 0..MaxOperand }

\* x op1 y op2 z ;   (x op1 y) op2 z ;   x op1 (y op2 z) ;
ExprInput(toks) ==
    \E x \in Operands, y \in Operands, z \in Operands :
        \E o1 \in BinaryOpToks, o2 \in BinaryOpToks :
            toks \in { <<x, o1, y, o2, z, Semi, EofTok>>,
                       <<Open, x, o1, y, Close, o2, z, Semi, EofTok>>,
                       <<x, o1, Open, y, o2, z, Close, Semi, EofTok>> }

\* what may stand on either side of an `=`
AssignChunks ==
    { <<IdTok("a")>>, <<IdTok("b")>>, <<NumTok(1)>>, <<Open, IdTok("a"), Close>>,
      <<IdTok("a"), Tok("PLUS", <<"+">>), NumTok(1)>> }

\* declarations in front, so that a, b are bound or not when the statement runs
AssignPrefixes ==
    { <<>>,
      <<Let, IdTok("a"), Equal, NumTok(1), Semi>>,
      <<Let, IdTok("b"), Semi>>,
      <<Let, IdTok("a"), Equal, NumTok(1), Semi, Let, IdTok("b"), Equal, NumTok(2), Semi>> }

\* l = m = r ;   l = r ;   l = ;   r ;
AssignInputs ==
    UNION { { p \o l \o <<Equal>> \o m \o <<Equal>> \o r \o <<Semi, EofTok>>,
              p \o l \o <<Equal>> \o r \o <<Semi, EofTok>>,
              p \o l \o <<Equal, Semi, EofTok>>,
              p \o r \o <<Semi, EofTok>> } :
            <<p, l, m, r>> \in AssignPrefixes \X AssignChunks \X AssignChunks \X AssignChunks }

\* a `-` in operand position:  - x ;   - - x ;   - x * y ;   x * - y ;   x - - y ;
UnaryInputs ==
    UNION { { <<Tok("MINUS", <<"-">>), x, Semi, EofTok>>,
              <<Tok("MINUS", <<"-">>), Tok("MINUS", <<"-">>), x, Semi, EofTok>>,
              <<Tok("MINUS", <<"-">>), x, Tok("STAR", <<"*">>), y, Semi, EofTok>>,
              <<x, Tok("STAR", <<"*">>), Tok("MINUS", <<"-">>), y, Semi, EofTok>>,
              <<x, Tok("MINUS", <<"-">>), Tok("MINUS", <<"-">>), y, Semi, EofTok>> } :
            <<x, y>> \in {IdTok("a"), NumTok(1)} \X {IdTok("b"), NumTok(2)} }

\* a block of two statements at the top level, after declarations and before two
\* prints:  p { s1 s2 } print a ; print b ;
BlockStatements ==
    { <<Let, IdTok("a"), Equal, NumTok(2), Semi>>,
      <<Let, IdTok("b"), Semi>>,
      <<IdTok("a"), Equal, IdTok("b"), Semi>>,
      <<Tok("PRINT", <<"p", "r", "i", "n", "t">>), IdTok("a"), Semi>>,
      <<Tok("OPEN_BRACE", <<"{">>), Let, IdTok("b"), Equal, NumTok(1), Semi,
        Tok("CLOSE_BRACE", <<"}">>)>> }

BlockInputs ==
    { p \o <<Tok("OPEN_BRACE", <<"{">>)>> \o s1 \o s2 \o <<Tok("CLOSE_BRACE", <<"}">>)>>
        \o <<Tok("PRINT", <<"p", "r", "i", "n", "t">>), IdTok("a"), Semi,
             Tok("PRINT", <<"p", "r", "i", "n", "t">>), IdTok("b"), Semi, EofTok>> :
      <<p, s1, s2>> \in AssignPrefixes \X BlockStatements \X BlockStatements }

\* operands that read, assign or fail:  p print l op r ;
OrderChunks ==
    { <<IdTok("a")>>, <<IdTok("b")>>, <<NumTok(1)>>,
      <<Open, IdTok("a"), Equal, NumTok(2), Close>>,
      <<Open, IdTok("b"), Equal, IdTok("a"), Close>> }

OrderInputs ==
    { p \o <<Tok("PRINT", <<"p", "r", "i", "n", "t">>)>> \o l \o <<o>> \o r
        \o <<Semi, EofTok>> :
      <<p, l, o, r>> \in AssignPrefixes \X OrderChunks
                          \X {Tok("PLUS", <<"+">>), Tok("LESS", <<"<">>)} \X OrderChunks }

ShortAlphabet ==
    { NumTok(1), IdTok("a"), Equal, Semi, Open, Close, Let, Tok("PLUS", <<"+">>),
      Tok("OPEN_BRACE", <<"{">>), Tok("CLOSE_BRACE", <<"}">>), Tok("IF", <<"i", "f">>),
      Tok("ELSE", <<"e", "l", "s", "e">>), Tok("PRINT", <<"p", "r", "i", "n", "t">>),
      Tok("UNKNOWN", <<"#">>) }

\* every token sequence of at most MaxTokLen tokens, closed by the sentinel
ShortInput(toks) ==
    \E k \in 0..MaxTokLen :
        \E s \in [1..k -> ShortAlphabet] : toks = Append(s, EofTok)

TokenInput(toks) ==
    \/ ExprInput(toks)
    \/ toks \in AssignInputs
    \/ toks \in UnaryInputs
    \/ toks \in BlockInputs
    \/ toks \in OrderInputs
    \/ ShortInput(toks)

(***************************************************************************)
(* Specification of the Parser.cpp program: main runs the pipeline on a    *)
(* source text, or a caller constructs a Parser on a token vector.         *)
(***************************************************************************)
Init ==
    /\ which = "cpp"
    /\ keywords = {}
    /\ \/ source \in Sources /\ pc = "lex" /\ tokens = <<>>
       \/ source = <<>> /\ pc = "parse" /\ TokenInput(tokens)
    /\ lx = LexStart
    /\ m_current = 0
    /\ statements = <<>>
    /\ perr = NoError
    /\ idx = 0
    /\ environment = EmptyEnv
    /\ output = <<>>
    /\ trace = <<>>
    /\ rerr = NoError
    /\ uncaught = NoError
    /\ first = NoRun

Next ==
    \/ CppLexStep
    \/ CppLexFinish
    \/ ParseStep
    \/ ParseReturn
    \/ InterpStep
    \/ InterpReturn

Spec == Init /\ [][Next]_vars

(***************************************************************************)
(* Specification of the two lexers on every short text over LexAlphabet.   *)
(* A Tokenizer object has been constructed on the text (so the keyword     *)
(* table is filled); tokenize of Parser.cpp has just been called.          *)
(***************************************************************************)
MaxSrcLen == 3    \* every source text up to this length is lexed

LexAlphabet == {"i", "f", "1", ".", "=", "<", "/", "\n", "\"", "'", " ", "&"}

\* longer texts: a comment between two lines, a lone slash, a string holding `//`,
\* a comment line before a slash
LexExtra ==
    { <<"1", "/", "/", "i", "\n", "f">>,
      <<"i", " ", "/", " ", "f">>,
      <<"\"", "/", "/", "\"">>,
      <<"/", "/", "\n", "/", "\n", "1">> }

LexSource(src) ==
    \/ \E k \in 0..MaxSrcLen : src \in [1..k -> LexAlphabet]
    \/ src \in LexExtra

InitLex ==
    /\ which \in {"cpp", "hpp"}
    /\ keywords = IF which = "hpp" THEN Tokenizer_ctor({}) ELSE {}
    /\ LexSource(source)
    /\ pc = "lex"
    /\ tokens = <<>>
    /\ lx = LexStart
    /\ m_current = 0
    /\ statements = <<>>
    /\ perr = NoError
    /\ idx = 0
    /\ environment = EmptyEnv
    /\ output = <<>>
    /\ trace = <<>>
    /\ rerr = NoError
    /\ uncaught = NoError
    /\ first = NoRun

NextLex ==
    \/ CppLexStep
    \/ CppLexFinish
    \/ HppLexStep
    \/ HppLexFinish

SpecLex == InitLex /\ [][NextLex]_vars

(***************************************************************************)
(* Properties                                                              *)
(***************************************************************************)
\* the lexer has returned its token vector
LexDone == pc # "lex"

IsPrefix(s, t) == Len(s) <= Len(t) /\ SubSeq(t, 1, Len(s)) = s

\* C10: for every source text (the empty one included) the token sequence tokenize
\* returns ends with a token of the end-of-input kind, and no token before the last
\* has that kind -- for tokenize of Parser.cpp and for Tokenizer::tokenize.
C10_SentinelLast ==
    /\ \A i \in 1..Len(tokens) :
           tokens[i].type = EOF_TYPE => LexDone /\ i = Len(tokens)
    /\ LexDone => Len(tokens) >= 1 /\ tokens[Len(tokens)].type = EOF_TYPE

\* a text of three characters lexed by Tokenizer to two tokens and the sentinel
C10_Witness ==
    /\ which = "hpp" /\ LexDone /\ Len(source) = 3
    /\ Len(tokens) = 3 /\ tokens[3].type = EOF_TYPE /\ tokens[1].type = "KEYWORD_IF"


\* the lines written to standard output, as the texts "22" and "20"
C1_Expected == << <<"2", "2">>, <<"2", "0">> >>

\* C1: running tokenize, parse and interpret on the source
\*   let a = 10; let b = 0; if (a > 5) { b = a*2 + (a/5); print b; }
\*   else { print 999; } let c = b - 2; print c;
\* prints exactly two lines, 22 then 20, in that order: at every moment
\* the output is a prefix of those two lines (so 999 is never printed), no stage
\* fails, and when the interpreter has returned both lines have been printed.
C1_EndToEnd ==
    source = SrcEndToEnd =>
        /\ IsPrefix(output, C1_Expected)
        /\ perr = NoError /\ rerr = NoError /\ uncaught = NoError
        /\ pc \in {"lex", "parse", "interp", "done"}
        /\ pc = "done" => output = C1_Expected

\* the example has been run to the end and has printed its two lines
C1_Witness ==
    /\ source = SrcEndToEnd /\ pc = "done"
    /\ Len(output) = 2 /\ output[2] = <<"2", "0">>
    /\ environment[<<"b">>] = Num(22) /\ environment[<<"c">>] = Num(20)


\* the parser has returned the statements to its caller
Parsed == pc \in {"interp", "done", "interp_threw"}

\* binding strength of a binary operator as C2 ranks them (0: not one)
C2_Level(type) ==
    CASE type \in {"STAR", "SLASH"} -> 4
      [] type \in {"PLUS", "MINUS"} -> 3
      [] type \in {"GREATER", "GREATER_EQUAL", "LESS", "LESS_EQUAL"} -> 2
      [] type \in {"EQUAL_EQUAL", "BANG_EQUAL"} -> 1
      [] OTHER -> 0

C2_Types(toks) == [i \in 1..Len(toks) |-> toks[i].type]

\* the shape of a statement of two binary operators over three number literals:
\*   "flat"  x o1 y o2 z ;     "left"  ( x o1 y ) o2 z ;     "right"  x o1 ( y o2 z ) ;
C2_Shape(toks) ==
    LET ty == C2_Types(toks)
        op(i) == C2_Level(ty[i]) > 0
    IN  IF Len(toks) = 7 /\ op(2) /\ op(4)
           /\ ty = <<"NUMBER", ty[2], "NUMBER", ty[4], "NUMBER", "SEMICOLON", EOF_TYPE>>
        THEN [shape |-> "flat", x |-> toks[1], o1 |-> toks[2], y |-> toks[3],
              o2 |-> toks[4], z |-> toks[5]]
        ELSE IF Len(toks) = 9 /\ op(3) /\ op(6)
           /\ ty = <<"OPEN_PAREN", "NUMBER", ty[3], "NUMBER", "CLOSE_PAREN", ty[6],
                     "NUMBER", "SEMICOLON", EOF_TYPE>>
        THEN [shape |-> "left", x |-> toks[2], o1 |-> toks[3], y |-> toks[4],
              o2 |-> toks[6], z |-> toks[7]]
        ELSE IF Len(toks) = 9 /\ op(2) /\ op(5)
           /\ ty = <<"NUMBER", ty[2], "OPEN_PAREN", "NUMBER", ty[5], "NUMBER",
                     "CLOSE_PAREN", "SEMICOLON", EOF_TYPE>>
        THEN [shape |-> "right", x |-> toks[1], o1 |-> toks[2], y |-> toks[4],
              o2 |-> toks[5], z |-> toks[6]]
        ELSE [shape |-> "other"]

\* the groupings C2 allows: (x o1 y) o2 z as "L", x o1 (y o2 z) as "R".
\* Parentheses decide; without them the tighter operator groups first, and between
\* operators of one level C2 leaves the grouping open.
C2_Groupings(p) ==
    CASE p.shape = "left" -> {"L"}
      [] p.shape = "right" -> {"R"}
      [] p.shape = "flat" /\ C2_Level(p.o1.type) > C2_Level(p.o2.type) -> {"L"}
      [] p.shape = "flat" /\ C2_Level(p.o1.type) < C2_Level(p.o2.type) -> {"R"}
      [] OTHER -> {"L", "R"}

C2_Tree(p, g) ==
    IF g = "L"
    THEN BinaryExpr(BinaryExpr(LiteralExpr(p.x), p.o1, LiteralExpr(p.y)), p.o2,
                    LiteralExpr(p.z))
    ELSE BinaryExpr(LiteralExpr(p.x), p.o1,
                    BinaryExpr(LiteralExpr(p.y), p.o2, LiteralExpr(p.z)))

C2_Number(t) == Num(IntOf(t.literal))

C2_Value(p, g) ==
    IF g = "L"
    THEN apply_op(p.o2.type, apply_op(p.o1.type, C2_Number(p.x), C2_Number(p.y)),
                  C2_Number(p.z))
    ELSE apply_op(p.o1.type, C2_Number(p.x),
                  apply_op(p.o2.type, C2_Number(p.y), C2_Number(p.z)))

C2_Holds(p) ==
    /\ pc \notin {"parse_threw", "interp_threw"}
    /\ Parsed => /\ Len(statements) = 1
                 /\ \E g \in C2_Groupings(p) :
                        statements[1] = ExpressionStmt(C2_Tree(p, g))
    /\ pc = "done" => /\ rerr = NoError /\ Len(trace) = 1
                      /\ \E g \in C2_Groupings(p) : trace[1].val = C2_Value(p, g)

\* C2: `*` and `/` bind tighter than `+` and `-`, these tighter than the comparison
\* operators, these tighter than `==` and `!=`, and parentheses override: every
\* statement of two binary operators over three number literals (with or without a
\* parenthesised pair) parses to the tree that groups the tighter operator, or the
\* parenthesised pair, first, and evaluates to the value of that grouping; in
\* particular `2 + 3 * 4;` evaluates to 14 and `(2 + 3) * 4;` to 20.
C2_Precedence ==
    /\ \E p \in {C2_Shape(tokens)} : p.shape # "other" => C2_Holds(p)
    /\ (source = SrcPrec1 /\ pc = "done") => trace[1].val = Num(14)
    /\ (source = SrcPrec2 /\ pc = "done") => trace[1].val = Num(20)

\* `2 + 3 * 4;` has been lexed, parsed to 2 + (3 * 4) and evaluated to 14
C2_Witness ==
    /\ source = SrcPrec1 /\ pc = "done"
    /\ C2_Shape(tokens).shape = "flat"
    /\ statements[1].expression.op.type = "PLUS"
    /\ statements[1].expression.right.op.type = "STAR"
    /\ trace[1].val = Num(14)


\* the tree of one side of an `=` of the generated statements: a, b, 1, (a), a + 1
ChunkExpr(r) ==
    IF Len(r) = 1
    THEN IF r[1].type = "IDENTIFIER" THEN VariableExpr(r[1]) ELSE LiteralExpr(r[1])
    ELSE IF r[1].type = "OPEN_PAREN" THEN VariableExpr(r[2])
    ELSE BinaryExpr(VariableExpr(r[1]), r[2], LiteralExpr(r[3]))

Identifiers == { IdTok("a"), IdTok("b") }

\* the ways tokens reads as  <declarations> x = y = e ;  with identifiers x, y
C3_Cases(toks) ==
    { c \in [p : AssignPrefixes, x : Identifiers, y : Identifiers, e : AssignChunks] :
        toks = c.p \o <<c.x, Equal, c.y, Equal>> \o c.e \o <<Semi, EofTok>> }

\* C3: assignment is right-associative: for identifiers a, b and an expression e,
\* the statement `a = b = e;` is accepted and parses as Assign(a, Assign(b, e)) --
\* the target of the outer assignment is the name a, never the expression a = b.
C3_RightAssociative ==
    /\ \A c \in C3_Cases(tokens) :
           /\ pc # "parse_threw"
           /\ Parsed => statements[Len(statements)] =
                  ExpressionStmt(AssignExpr(c.x, AssignExpr(c.y, ChunkExpr(c.e))))
    /\ source = SrcAssoc =>
           /\ pc # "parse_threw"
           /\ Parsed => statements = << ExpressionStmt(AssignExpr(IdTok("a"),
                            AssignExpr(IdTok("b"), LiteralExpr(NumTok(5))))) >>

\* `a = b = 5;` has been lexed and parsed to Assign(a, Assign(b, 5))
C3_Witness ==
    /\ source = SrcAssoc /\ Parsed /\ Len(statements) = 1
    /\ statements[1].expression.tag = "AssignExpr"
    /\ statements[1].expression.name.literal = <<"a">>
    /\ statements[1].expression.value.tag = "AssignExpr"
    /\ statements[1].expression.value.name.literal = <<"b">>


\* the generated sides of an `=` that do not parse to a Variable node: 1 and a + 1
NonVariables == { r \in AssignChunks : ChunkExpr(r).tag # "VariableExpr" }

\* the token vectors  <declarations> l = r ;  and  <declarations> l = m = r ;  where
\* the left side of some `=` is no variable and everything right of it is well formed
C4_BadTargetInputs ==
    UNION { { p \o l \o <<Equal>> \o r \o <<Semi, EofTok>> :
              l \in NonVariables, r \in AssignChunks }
            \cup { p \o c.l \o <<Equal>> \o c.m \o <<Equal>> \o c.r \o <<Semi, EofTok>> :
                   c \in { d \in [l : AssignChunks, m : AssignChunks, r : AssignChunks] :
                              d.l \in NonVariables \/ d.m \in NonVariables } } :
            p \in AssignPrefixes }

C4_BadTarget(toks) == toks \in C4_BadTargetInputs

\* the token vectors  <declarations> l = ;  where l is no variable and the right
\* side of the `=` is missing
C4_BadTargetNoValueInputs ==
    { p \o l \o <<Equal, Semi, EofTok>> : p \in AssignPrefixes, l \in NonVariables }

C4_BadTargetNoValue(toks) == toks \in C4_BadTargetNoValueInputs

\* the text is one of  10 = 5;   let a; a + 1 = 5; print a;
C4_BadText == source \in {SrcBadTarget, SrcBadTarget2}

\* the statement is not accepted and no node is produced for it: parse does not
\* return, and only the declarations in front of the statement were pushed
C4_Rejected ==
    /\ ~Parsed
    /\ \A i \in 1..Len(statements) : statements[i].tag = "LetStmt"

\* C4 (as the code has it): whenever the expression parsed to the left of an `=` is
\* not a Variable node, the parser raises a syntax error and produces no Assign node
\* for it, so `10 = 5;` is never accepted.  The right side of the `=` is parsed
\* before the target is looked at: the error is "Invalid assignment target." when
\* the right side parses, and the right side's own syntax error when it does not.
C4_InvalidTarget ==
    /\ (C4_BadTarget(tokens) \/ C4_BadText) =>
           /\ C4_Rejected
           /\ pc = "parse_threw" => perr.message = "Invalid assignment target."
    /\ C4_BadTargetNoValue(tokens) =>
           /\ C4_Rejected
           /\ pc = "parse_threw" => perr.message = "Expect expression."

\* `10 = 5;` has been lexed and parse has thrown the invalid-target error
C4_Witness ==
    /\ source = SrcBadTarget /\ pc = "parse_threw"
    /\ perr = [line |-> 1, message |-> "Invalid assignment target."]
    /\ statements = <<>>

\* C4 as stated: whenever the expression left of an `=` is not a Variable node, the
\* syntax error raised is the invalid-assignment-target error.
C4_AsStated ==
    (C4_BadTarget(tokens) \/ C4_BadText \/ C4_BadTargetNoValue(tokens)) =>
        /\ C4_Rejected
        /\ pc = "parse_threw" => perr.message = "Invalid assignment target."


\* interpret is about to execute an expression statement / has just executed it
AtExpressionStmt ==
    /\ pc = "interp" /\ idx < Len(statements)
    /\ statements[idx + 1].tag = "ExpressionStmt"

\* the exception err is the undefined-variable error and its message carries name
C5_Carries(err, name) ==
    /\ err # NoError
    /\ err.kind = "runtime_error"
    /\ err.what = <<"Undefined variable '">> \o name \o <<"'.">>

\* no exception leaves the statement
C5_NoErrorNext == rerr' = NoError /\ uncaught' = NoError

C5_Variable(e) ==
    IF Bound(environment, e.name.literal)
    THEN C5_NoErrorNext
    ELSE C5_Carries(rerr', e.name.literal) /\ pc' = "done"

\* Assign(n, e): e is evaluated first; its error, if any, is the one raised
C5_Assign(e) ==
    \E value \in {evaluate(e.value, environment)} :
        IF Bound(environment, e.name.literal)
        THEN /\ ~C5_Carries(rerr', e.name.literal)
             /\ value.ok => C5_NoErrorNext
        ELSE /\ value.ok => C5_Carries(rerr', e.name.literal) /\ pc' = "done"
             /\ ~value.ok => value.err \in {rerr', uncaught'} /\ pc' # "interp"

\* C5 (as the code has it): evaluating Variable(n) when n is not bound raises an
\* evaluation error whose message carries the name n, and raises no error when n is
\* bound.  Evaluating Assign(n, e) when n is not bound raises an evaluation error: it
\* carries the name n when e evaluates without error, and it is e's own error when
\* e fails (e is evaluated before n is looked up).  When n is bound, Assign(n, e)
\* never raises the error that names n.
C5_UndefinedVariable ==
    [][ (AtExpressionStmt /\ idx' = idx + 1) =>
          \E e \in {statements[idx + 1].expression} :
              /\ e.tag = "VariableExpr" => C5_Variable(e)
              /\ e.tag = "AssignExpr" => C5_Assign(e) ]_vars

\* `a = 1;` has been executed with a unbound and has raised the error that names a
C5_Witness ==
    /\ pc = "done" /\ idx = 1 /\ environment = EmptyEnv
    /\ statements[1] = ExpressionStmt(AssignExpr(IdTok("a"), LiteralExpr(NumTok(1))))
    /\ C5_Carries(rerr, <<"a">>)

\* C5 as stated: evaluating Variable(n) or Assign(n, e) when n is not bound raises
\* an error whose message carries the name n; when n is bound, neither raises it.
C5_AsStated ==
    [][ (AtExpressionStmt /\ idx' = idx + 1) =>
          \E e \in {statements[idx + 1].expression} :
              e.tag \in {"VariableExpr", "AssignExpr"} =>
                  IF Bound(environment, e.name.literal)
                  THEN ~C5_Carries(rerr', e.name.literal)
                  ELSE C5_Carries(rerr', e.name.literal) ]_vars


\* the execute() calls made directly by the call recorded at trace[i]
Children(i) ==
    { j \in (i + 1)..Len(trace) :
        /\ trace[j].depth = trace[i].depth + 1
        /\ \A k \in (i + 1)..j : trace[k].depth > trace[i].depth }

\* the condition of the if executed at trace[i] evaluated to zero (0 or -0)
C6_Zero(i) == trace[i].val.k = "fin" /\ trace[i].val.n = 0

\* the call at trace[i] executed exactly the statement branch, once
C6_ExecutedOnly(i, branch) ==
    /\ Cardinality(Children(i)) = 1
    /\ \A j \in Children(i) : trace[j].stmt = branch

C6_If(i) ==
    IF trace[i].val = NoValue THEN Children(i) = {}
    ELSE IF ~C6_Zero(i) THEN C6_ExecutedOnly(i, trace[i].stmt.thenBranch)
    ELSE IF trace[i].stmt.elseBranch # Null
    THEN C6_ExecutedOnly(i, trace[i].stmt.elseBranch)
    ELSE Children(i) = {}

\* C6: executing If(c, t, e): when c evaluates to a nonzero value exactly the
\* then-branch t is executed; when c evaluates to zero exactly the else-branch e is
\* executed if there is one and nothing is executed if there is none; never both
\* (and nothing when evaluating c fails).  `if (0) print 1; else print 2;` prints 2.
C6_IfSelectsOneBranch ==
    /\ \A i \in 1..Len(trace) : trace[i].stmt.tag = "IfStmt" => C6_If(i)
    /\ (source = SrcIf0 /\ pc = "done") => output = << <<"2">> >>

\* `if (0) print 1; else print 2;` has been run: the else-branch alone was executed
C6_Witness ==
    /\ source = SrcIf0 /\ pc = "done" /\ output = << <<"2">> >>
    /\ Len(trace) = 2 /\ trace[1].stmt.tag = "IfStmt" /\ C6_Zero(1)
    /\ trace[2].stmt = trace[1].stmt.elseBranch


\* the parse call is over: it has returned, or an exception has left it
ParseEnded == Parsed \/ pc = "parse_threw"

\* the syntax errors the parse call has reported.  Parser keeps no list of errors
\* and has no handler: the one report is the exception that leaves parse.
SyntaxErrors == IF perr = NoError THEN <<>> ELSE <<perr>>

\* C7: parse(tokens) never propagates a parse error to its caller: for every token
\* sequence that ends in the end-of-input token, grammar violations included, no
\* exception leaves parse.
C7_ParseNeverThrows == pc # "parse_threw"

\* C8: one call of parse on a source with two independent malformed statements (two
\* statements each missing its semicolon: `print 1 print 2`; a let without a name
\* and a print without an expression) reports two distinct syntax errors, one per
\* malformed statement, instead of stopping at the first.
C8_TwoErrorsReported ==
    (source \in {SrcTwoErrors, SrcTwoErrors2} /\ ParseEnded) =>
        /\ Len(SyntaxErrors) = 2
        /\ SyntaxErrors[1] # SyntaxErrors[2]

\* a statement of the run has raised an exception
Failed == rerr # NoError \/ uncaught # NoError

\* C9: once a statement of a run raises a runtime failure, interpret catches it at
\* the top and returns normally, having executed no later statement: the exception
\* does not leave interpret, and the last execute() call on record is the one that
\* failed.
C9_CaughtAtTop ==
    Failed =>
        /\ pc = "done" /\ uncaught = NoError
        /\ trace # <<>> /\ trace[Len(trace)].val = NoValue


(***************************************************************************)
(* Specification of the front end run twice on one input: a text is lexed  *)
(* by Tokenizer or by tokenize of Parser.cpp (and then parsed), or a token *)
(* vector is parsed; then a second Tokenizer / Parser object is made on    *)
(* the same input and the run is repeated.  The static keyword table of    *)
(* Tokenizer is kept from the first object to the second.                  *)
(***************************************************************************)
InitTwice ==
    /\ \/ which = "hpp" /\ LexSource(source) /\ pc = "lex" /\ tokens = <<>>
          /\ keywords = Tokenizer_ctor({})
       \/ which = "cpp" /\ (LexSource(source) \/ source \in Sources) /\ pc = "lex"
          /\ tokens = <<>> /\ keywords = {}
       \/ which = "none" /\ source = <<>> /\ pc = "parse" /\ TokenInput(tokens)
          /\ keywords = {}
    /\ lx = LexStart
    /\ m_current = 0
    /\ statements = <<>>
    /\ perr = NoError
    /\ idx = 0
    /\ environment = EmptyEnv
    /\ output = <<>>
    /\ trace = <<>>
    /\ rerr = NoError
    /\ uncaught = NoError
    /\ first = NoRun

\* the front end is through with the input: Tokenizer::tokenize has returned, or
\* parse has returned or thrown
FrontEndDone == pc \in {"lexed", "interp", "parse_threw"}

\* The first run is over; its results are kept aside and the input is handed to
\* new objects: Tokenizer(source) finds the static table as the first left it,
\* tokenize(source) of Parser.cpp starts from its locals, Parser(tokens) from 0.
Again ==
    /\ first = NoRun
    /\ FrontEndDone
    /\ first' = [tokens |-> tokens, statements |-> statements, perr |-> perr]
    /\ keywords' = IF which = "hpp" THEN Tokenizer_ctor(keywords) ELSE keywords
    /\ lx' = LexStart
    /\ tokens' = IF which = "none" THEN tokens ELSE <<>>
    /\ pc' = IF which = "none" THEN "parse" ELSE "lex"
    /\ m_current' = 0
    /\ statements' = <<>>
    /\ perr' = NoError
    /\ UNCHANGED <<which, source, idx, environment, output, trace, rerr, uncaught>>

NextTwice ==
    \/ CppLexStep
    \/ CppLexFinish
    \/ HppLexStep
    \/ HppLexFinish
    \/ ParseStep
    \/ ParseReturn
    \/ Again

SpecTwice == InitTwice /\ [][NextTwice]_vars

C12_Partner(c) ==
    CASE c \in {"=", "!", "<", ">"} -> "="
      [] c = "&" /\ which = "hpp" -> "&"
      [] c = "|" /\ which = "hpp" -> "|"
      [] OTHER -> ""

\* the kinds of the two-character operators
C12_TwoCharTypes ==
    { "EQUAL_EQUAL", "BANG_EQUAL", "LESS_EQUAL", "GREATER_EQUAL",
      "DBL_EQUALS", "NOT_EQUALS", "LESS_EQ", "GREATER_EQ", "LOGICAL_AND", "LOGICAL_OR" }

\* the lexer stands at character c, which can begin a two-character operator;
\* the step takes one token, of the two characters c and its partner when the
\* partner follows immediately, and of c alone (not a two-character kind) otherwise
C12_StepAt(i, c) ==
    /\ Len(tokens') = Len(tokens) + 1
    /\ SubSeq(tokens', 1, Len(tokens)) = tokens
    /\ \E t \in {tokens'[Len(tokens')]} :
           IF i + 1 < Len(source) /\ CharAt(source, i + 1) = C12_Partner(c)
           THEN /\ t.literal = <<c, C12_Partner(c)>>
                /\ t.type \in C12_TwoCharTypes
                /\ lx'.current = i + 2
           ELSE /\ t.literal = <<c>>
                /\ t.type \notin C12_TwoCharTypes
                /\ lx'.current = i + 1

\* C12: maximal munch of two-character operators: whenever the lexer is at `=`,
\* `!`, `<` or `>` and the next character is `=` (in Tokenizer also `&` before `&`,
\* `|` before `|`), it emits exactly one two-character operator token whose text is
\* those two characters; the one-character form is emitted only when the next
\* character does not complete an operator; no other character gets into the token.
C12_MaximalMunch ==
    [][ (pc = "lex" /\ lx.current < Len(source)
         /\ C12_Partner(CharAt(source, lx.current)) # "")
        => C12_StepAt(lx.current, CharAt(source, lx.current)) ]_vars


\* C13: binary operators of one precedence level are left-associative: for op1, op2
\* of the same level the statement `x op1 y op2 z;` parses as
\* Binary(Binary(x, op1, y), op2, z) and evaluates accordingly; `10 - 3 - 2`
\* evaluates to 5 and `8 / 4 / 2` to 1.
C13_LeftAssociative ==
    /\ \E p \in {C2_Shape(tokens)} :
           (p.shape = "flat" /\ C2_Level(p.o1.type) = C2_Level(p.o2.type)) =>
               /\ pc \notin {"parse_threw", "interp_threw"}
               /\ Parsed => statements = << ExpressionStmt(C2_Tree(p, "L")) >>
               /\ pc = "done" => /\ rerr = NoError /\ Len(trace) = 1
                                 /\ trace[1].val = C2_Value(p, "L")
    /\ (source = SrcLeft1 /\ pc = "done") => trace[1].val = Num(5)
    /\ (source = SrcLeft2 /\ pc = "done") => trace[1].val = Num(1)

\* `10 - 3 - 2;` has been parsed to (10 - 3) - 2 and evaluated to 5
C13_Witness ==
    /\ source = SrcLeft1 /\ pc = "done"
    /\ statements[1].expression.op.type = "MINUS"
    /\ statements[1].expression.left.tag = "BinaryExpr"
    /\ statements[1].expression.right.tag = "LiteralExpr"
    /\ trace[1].val = Num(5)


\* the Unary node of AST.hpp
C14_Unary(o, r) == [tag |-> "UnaryExpr", op |-> o, right |-> r]

\* the tree of an operand token
C14_Operand(t) == IF t.type = "IDENTIFIER" THEN VariableExpr(t) ELSE LiteralExpr(t)

\* the tree the grammar with  unary -> '-' unary | primary  gives the statements
\* of UnaryInputs
C14_Expected(toks) ==
    LET ty == C2_Types(toks)
    IN  CASE Len(toks) = 4 -> C14_Unary(toks[1], C14_Operand(toks[2]))
          [] Len(toks) = 5 ->
               C14_Unary(toks[1], C14_Unary(toks[2], C14_Operand(toks[3])))
          [] Len(toks) = 6 /\ ty[1] = "MINUS" ->
               BinaryExpr(C14_Unary(toks[1], C14_Operand(toks[2])), toks[3],
                          C14_Operand(toks[4]))
          [] OTHER ->
               BinaryExpr(C14_Operand(toks[1]), toks[2],
                          C14_Unary(toks[3], C14_Operand(toks[4])))

\* C14: unary minus is part of the expression grammar: a `-` in operand position
\* parses as Unary(-, operand), nests right-recursively (`- - x` is
\* Unary(-, Unary(-, x))) and binds tighter than `*`, so `-a * b` is
\* Binary(Unary(-, a), *, b) and is not a syntax error.
C14_UnaryMinus ==
    (tokens \in UnaryInputs \/ source = SrcUnary) =>
        /\ pc # "parse_threw"
        /\ Parsed => statements = << ExpressionStmt(C14_Expected(tokens)) >>


\* the token kinds at which synchronization stops
C15_Starters == {"FUNC", "IF", "RETURN", "LET", "FOR", "WHILE"}

\* synchronize, entered with the parser at the offending token: that token is
\* discarded, then tokens are discarded until a semicolon has just been consumed
\* or the parser stands at a starter or at the end of input
RECURSIVE C15_discard(_, _)
C15_discard(toks, cur) ==
    IF \/ is_at_end(toks, cur)
       \/ previous(toks, cur).type = "SEMICOLON"
       \/ peek(toks, cur).type \in C15_Starters
    THEN cur
    ELSE C15_discard(toks, advance(toks, cur))

C15_synchronize(toks, cur) == C15_discard(toks, advance(toks, cur))

\* the output of a parse that resumes after every failed declaration
RECURSIVE C15_Recovered(_, _, _)
C15_Recovered(toks, cur, stmts) ==
    IF is_at_end(toks, cur)
    THEN stmts
    ELSE LET d == declaration(toks, cur)
         IN  IF d.ok
             THEN C15_Recovered(toks, d.cur, Append(stmts, d.node))
             ELSE C15_Recovered(toks, C15_synchronize(toks, d.cur), stmts)

\* C15: panic-mode synchronization: after a parse error inside a declaration the
\* parser discards tokens until it has just consumed a semicolon or stands at
\* func, if, return, let, for or while (or the end of input) and resumes there;
\* the failed declaration adds no node, and every well-formed declaration after
\* the resumption point appears in the output in source order.  Stated for the
\* inputs without a block, where every declaration is a top-level one.
C15_Synchronized ==
    (ParseEnded /\ \A i \in 1..Len(tokens) : tokens[i].type # "OPEN_BRACE") =>
        statements = C15_Recovered(tokens, 0, <<>>)


\* no quote character stands before position i: position i is outside every
\* quoted literal
C16_Outside(i) == \A j \in 0..(i - 1) : CharAt(source, j) \notin {"\"", "'"}

\* the position of the first newline at or after position i, or the end of input
C16_LineEnd(i) ==
    CHOOSE j \in i..Len(source) :
        /\ j = Len(source) \/ CharAt(source, j) = "\n"
        /\ \A k \in i..(j - 1) : CharAt(source, k) # "\n"

\* C16: line comments: when `//` occurs outside a quoted literal, no character from
\* the `//` up to (not including) the next newline or the end of input produces a
\* token; a lone `/` still produces one SLASH token; and the newline that ends the
\* comment still increments the line counter, so the tokens of the next line are
\* emitted with the next line number.
C16_LineComments ==
    [][ (pc = "lex" /\ lx.current < Len(source) /\ C16_Outside(lx.current)) =>
          /\ CharAt(source, lx.current) = "/" =>
                 IF /\ lx.current + 1 < Len(source)
                    /\ CharAt(source, lx.current + 1) = "/"
                 THEN /\ tokens' = tokens
                      /\ lx'.current = C16_LineEnd(lx.current)
                      /\ lx'.line = lx.line
                 ELSE /\ tokens' = Append(tokens, [type |-> "SLASH", literal |-> <<"/">>,
                                                   line |-> lx.line])
                      /\ lx'.current = lx.current + 1
          /\ CharAt(source, lx.current) = "\n" =>
                 /\ tokens' = tokens
                 /\ lx'.current = lx.current + 1
                 /\ lx'.line = lx.line + 1
          /\ Len(tokens') > Len(tokens) => tokens'[Len(tokens')].line = lx'.line ]_vars


\* the kind of literal a quote character opens
C17_Kind(q) == IF q = "\"" THEN "STRING_LITERAL" ELSE "CHAR_LITERAL"

\* the positions after i at which the quote character q stands
C17_Closing(i, q) == {j \in (i + 1)..(Len(source) - 1) : CharAt(source, j) = q}

\* Tokenizer stands at the opening quote q at position i and takes one token
C17_StepAt(i, q) ==
    /\ Len(tokens') = Len(tokens) + 1
    /\ SubSeq(tokens', 1, Len(tokens)) = tokens
    /\ \E t \in {tokens'[Len(tokens')]} :
           IF C17_Closing(i, q) = {}
           THEN /\ t.type = "UNKNOWN"
                /\ t.literal = substr(source, i, Len(source))
                /\ lx'.current = Len(source)
                /\ pc' = "lex"
           ELSE \E j \in C17_Closing(i, q) :
                    /\ \A k \in C17_Closing(i, q) : j <= k
                    /\ t.type = C17_Kind(q)
                    /\ t.literal = substr(source, i, j + 1)
                    /\ lx'.current = j + 1

\* C17: an unterminated string or char literal does not abort lexing: Tokenizer
\* emits one UNKNOWN token whose text runs from the opening quote to the end of the
\* source, and the next thing it appends is the end-of-input sentinel, with which
\* tokenize returns; a terminated literal yields one STRING_LITERAL / CHAR_LITERAL
\* token whose text includes both quotes.
C17_QuotedLiterals ==
    [][ (which = "hpp" /\ pc = "lex") =>
          /\ (lx.current < Len(source) /\ CharAt(source, lx.current) \in {"\"", "'"})
                 => C17_StepAt(lx.current, CharAt(source, lx.current))
          /\ (lx.current = Len(source) /\ tokens # <<>>
              /\ tokens[Len(tokens)].type = "UNKNOWN")
                 => /\ pc' = "lexed"
                    /\ Len(tokens') = Len(tokens) + 1
                    /\ SubSeq(tokens', 1, Len(tokens)) = tokens
                    /\ tokens'[Len(tokens')].type = EOF_TYPE ]_vars

\* the text `i "f` has been lexed by Tokenizer: an identifier, the unterminated
\* literal as one UNKNOWN token, the sentinel
C17_Witness ==
    /\ which = "hpp" /\ LexDone
    /\ source = <<"i", "\"", "f">>
    /\ Len(tokens) = 3
    /\ tokens[2].type = "UNKNOWN" /\ tokens[2].literal = <<"\"", "f">>
    /\ tokens[3].type = EOF_TYPE


\* the names of the let statements on record that ran to their end (a let whose
\* initializer threw did not get to its assignment and has no value on record)
C18_LetNames(tr) ==
    { tr[i].stmt.name.literal :
          i \in {j \in 1..Len(tr) : tr[j].stmt.tag = "LetStmt" /\ tr[j].val # NoValue} }

\* C18: assignment is never an implicit declaration: in every reachable state of the
\* interpreter the set of names bound in the environment equals the set of names of
\* the let statements executed so far; executing an Assign, succeeding or failing,
\* never adds a name, and no operation ever removes one.
C18_AssignNeverDeclares == DOMAIN environment = C18_LetNames(trace)

\* `let a = 1; b = 1;` has run: the assignment to b failed and only a is bound
C18_Witness ==
    /\ pc = "done"
    /\ tokens = <<Let, IdTok("a"), Equal, NumTok(1), Semi,
                  IdTok("b"), Equal, NumTok(1), Semi, EofTok>>
    /\ rerr = UndefinedVariable(<<"b">>)
    /\ DOMAIN environment = {<<"a">>}


\* the names an evaluation of the expression e can assign
RECURSIVE C19_Assigned(_)
C19_Assigned(e) ==
    CASE e.tag = "AssignExpr" -> {e.name.literal} \cup C19_Assigned(e.value)
      [] e.tag = "BinaryExpr" -> C19_Assigned(e.left) \cup C19_Assigned(e.right)
      [] OTHER                -> {}

\* the bindings of the names outside `changed` are the same before and after
C19_Kept(changed) ==
    \A m \in (DOMAIN environment) \ changed :
        m \in DOMAIN environment' /\ environment'[m] = environment[m]

\* the let statement s is executed by this step
C19_Let(s) ==
    IF s.initializer = Null
    THEN /\ pc' = "interp"
         /\ s.name.literal \in DOMAIN environment'
         /\ environment'[s.name.literal] = Num(0)
         /\ C19_Kept({s.name.literal})
    ELSE \E e \in {evaluate(s.initializer, environment)} :
             e.ok => /\ pc' = "interp"
                     /\ s.name.literal \in DOMAIN environment'
                     /\ environment'[s.name.literal] = e.val
                     /\ C19_Kept({s.name.literal} \cup C19_Assigned(s.initializer))

\* C19: executing `let n = e;` binds n to the value of e, and `let n;` binds n to 0,
\* whether or not n was bound before (a redeclaration overwrites the old value and
\* does not fail); every binding of a name other than n that the evaluation of e
\* does not assign is left unchanged.
C19_LetBinds ==
    [][ (pc = "interp" /\ idx < Len(statements) /\ statements[idx + 1].tag = "LetStmt")
        => C19_Let(statements[idx + 1]) ]_vars

\* `let a = 1; let b = 2; let a; print a; let b = a + 7; print b;` has run: both
\* names were declared twice and hold the values of their second declarations
C19_Witness ==
    /\ source = SrcRedeclare /\ pc = "done" /\ rerr = NoError
    /\ environment = Store(Store(EmptyEnv, <<"a">>, Num(0)), <<"b">>, Num(7))
    /\ output = << <<"0">>, <<"7">> >>


\* the statements of a block written out at the enclosing level, blocks directly
\* inside the block included
RECURSIVE C20_Flat(_)
C20_Flat(stmts) ==
    IF stmts = <<>> THEN <<>>
    ELSE (IF Head(stmts).tag = "BlockStmt" THEN C20_Flat(Head(stmts).statements)
          ELSE <<Head(stmts)>>) \o C20_Flat(Tail(stmts))

\* the environment and the output after this step are those of r
C20_Same(r) ==
    /\ environment' = r.env
    /\ output' = r.out
    /\ (rerr' # NoError \/ uncaught' # NoError) = ~r.ok

\* C20: blocks introduce no scope: executing Block([s1, ..., sn]) from any
\* environment yields the same final environment and the same printed output as
\* executing s1, ..., sn in sequence at the enclosing level; in particular a `let`
\* inside a block stays bound after the block ends, and a `let` of an outer name
\* inside a block permanently overwrites the outer value.
C20_NoBlockScope ==
    [][ (pc = "interp" /\ idx < Len(statements)
         /\ statements[idx + 1].tag = "BlockStmt")
        => C20_Same(execute_all(C20_Flat(statements[idx + 1].statements),
                                [env |-> environment, out |-> output, trace |-> <<>>],
                                0)) ]_vars

\* `let a = 1; { let b = 2; let a = 3; print a; } print a; print b;` has run: after
\* the block b is bound and a holds the value the block gave it
C20_Witness ==
    /\ source = SrcScope /\ pc = "done" /\ rerr = NoError
    /\ environment = Store(Store(EmptyEnv, <<"a">>, Num(3)), <<"b">>, Num(2))
    /\ output = << <<"3">>, <<"3">>, <<"2">> >>


\* the exception err leaves the statement: interpret catches a runtime_error and
\* reports it, any other exception leaves interpret
C21_Raised(err) ==
    IF err.kind = "runtime_error" THEN rerr' = err /\ pc' = "done"
    ELSE uncaught' = err /\ pc' = "interp_threw"

\* the statement's expression is Binary(left, op, right): the left operand runs in
\* the current environment; if it fails, its error leaves and the environment is as
\* the left operand left it; otherwise the right operand runs in the environment
\* the left operand produced
C21_Binary(e) ==
    \E l \in {evaluate(e.left, environment)} :
        IF ~l.ok
        THEN environment' = l.env /\ C21_Raised(l.err)
        ELSE \E r \in {evaluate(e.right, l.env)} :
                 IF ~r.ok
                 THEN environment' = r.env /\ C21_Raised(r.err)
                 ELSE /\ environment' = r.env
                      /\ rerr' = NoError /\ uncaught' = NoError
                      /\ trace'[Len(trace')].val = apply_op(e.op.type, l.val, r.val)

\* C21: binary operands are evaluated eagerly and left before right: every
\* environment change or runtime failure caused by the left operand happens before
\* the right operand starts evaluating; with a bound to 0, `(a = 5) + a` evaluates
\* to 10 (and `a + (a = 5)` to 5), and when both operands would fail the error
\* reported names the left operand's variable.
C21_LeftBeforeRight ==
    [][ (pc = "interp" /\ idx < Len(statements) /\ idx' = idx + 1) =>
          /\ (/\ statements[idx + 1].tag \in {"PrintStmt", "ExpressionStmt"}
              /\ statements[idx + 1].expression.tag = "BinaryExpr")
                 => C21_Binary(statements[idx + 1].expression)
          /\ (source = SrcOrder1 /\ idx = 1) =>
                 /\ output' = << <<"1", "0">> >>
                 /\ environment' = Store(EmptyEnv, <<"a">>, Num(5))
          /\ (source = SrcOrder3 /\ idx = 1) => output' = << <<"5">> >>
          /\ source = SrcOrder2 => C5_Carries(rerr', <<"x">>) ]_vars

\* `let a = 0; print (a = 5) + a;` has run and printed 10
C21_Witness ==
    /\ source = SrcOrder1 /\ pc = "done" /\ rerr = NoError
    /\ output = << <<"1", "0">> >>
    /\ environment = Store(EmptyEnv, <<"a">>, Num(5))


\* a declaration parsed from position cur of the tokens either raises a parse error
\* or ends after cur, within the tokens: one iteration of the top-level loop or of
\* the block loop started at cur consumes at least one token or throws
C22_Progress(cur) ==
    \E d \in {declaration(tokens, cur)} :
        ~d.ok \/ (d.cur > cur /\ d.cur <= Len(tokens) - 1)

\* C22: parsing terminates: for every finite token sequence ending in the
\* end-of-input token (unclosed blocks, unclosed parentheses and arbitrarily placed
\* UNKNOWN tokens included) parse finishes, because every iteration of the top-level
\* loop and of the block loop either consumes at least one token or raises a parse
\* error.  The cursor is the measure: while parse runs it stays within the tokens
\* and every iteration that does not end the parse moves it forward.
C22_ParseTerminates ==
    [][ pc = "parse" =>
          /\ tokens[Len(tokens)].type = EOF_TYPE
          /\ m_current \in 0..(Len(tokens) - 1)
          /\ \A cur \in m_current..(Len(tokens) - 2) : C22_Progress(cur)
          /\ pc' = "parse" => (m_current' > m_current /\ m_current' <= Len(tokens) - 1)
          /\ pc' \in {"parse", "parse_threw", "interp"} ]_vars

\* parse has ended on a block that is never closed and holds an UNKNOWN token
C22_Witness ==
    /\ pc = "parse_threw"
    /\ tokens = <<Tok("OPEN_BRACE", <<"{">>), Open, Tok("UNKNOWN", <<"#">>), EofTok>>


\* the index of the end-of-input token in m_tokens
C23_End == CHOOSE i \in 0..(Len(tokens) - 1) :
               /\ tokens[i + 1].type = EOF_TYPE
               /\ \A j \in 0..(i - 1) : tokens[j + 1].type # EOF_TYPE

\* the token kinds the helpers are asked about with the cursor at cur: the kind of
\* the current token, the kind of the sentinel, and kinds the token may not have
C23_Types(cur) == {tokens[cur + 1].type, EOF_TYPE, "SEMICOLON", "IDENTIFIER"}

\* match and consume called with the cursor at cur, the end-of-input token being at
\* index end: the cursor moves only through advance, by one, only when it is not on
\* the end-of-input token, and after a successful call it is at least 1, so that
\* previous() reads a token
C23_Helpers(cur, end) ==
    \A type \in C23_Types(cur) :
        /\ \E m \in {Parser_match(tokens, cur, {type})} :
               /\ m.cur = IF m.ok THEN cur + 1 ELSE cur
               /\ m.ok => ~is_at_end(tokens, cur) /\ m.cur \in 1..end
        /\ \E c \in {consume(tokens, cur, type, <<>>)} :
               /\ c.cur = IF c.ok THEN cur + 1 ELSE cur
               /\ c.ok => /\ ~is_at_end(tokens, cur) /\ c.cur \in 1..end
                          /\ c.node = tokens[cur + 1]
        /\ advance(tokens, cur) \in cur..end

\* a rule started at cur leaves the cursor within the tokens, whether it returns or
\* throws, and not at 0 when it returns
C23_Rule(cur, end) ==
    \E d \in {declaration(tokens, cur)} :
        /\ d.cur \in cur..end
        /\ d.ok => d.cur >= 1

\* C23: parser cursor safety: for every token sequence ending in the end-of-input
\* token, in every reachable parser state the cursor m_current satisfies
\* 0 <= m_current <= index of the end-of-input token; advance is never executed while
\* the cursor is on the end-of-input token, and previous() is never evaluated with
\* m_current = 0, so no token access is out of bounds.  The helpers depend on the
\* tokens and the cursor only: they are checked at every cursor position when parse
\* starts; the rules are checked from every cursor the top-level loop reaches.
C23_CursorSafe ==
    (pc # "lex" /\ tokens # <<>> /\ tokens[Len(tokens)].type = EOF_TYPE) =>
        \E end \in {C23_End} :
            /\ m_current \in 0..end
            /\ (pc = "parse" /\ m_current = 0) =>
                   \A cur \in 0..end : C23_Helpers(cur, end)
            /\ (pc = "parse" /\ m_current < end) => C23_Rule(m_current, end)

\* parse has read `( a` up to the end-of-input token and thrown there: the cursor
\* is on the sentinel
C23_Witness ==
    /\ pc = "parse_threw"
    /\ tokens = <<Open, IdTok("a"), EofTok>>
    /\ m_current = 2 /\ m_current = C23_End


\* the number of newline characters among the first n characters of the source
C24_Newlines(n) == Cardinality({i \in 1..n : source[i] = "\n"})

\* C24: line tracking: every newline character of the source increments the line
\* counter by exactly one and emits no token, so the line numbers are non-decreasing
\* along the token sequence and the line recorded on the end-of-input token is 1
\* plus the number of newline characters in the source -- also when newlines lie
\* inside string literals, inside char literals or next to operator characters.
C24_LineTracking ==
    /\ \A i \in 1..Len(tokens) : \A j \in i..Len(tokens) :
           tokens[i].line <= tokens[j].line
    /\ \A i \in 1..Len(tokens) :
           (\E k \in 1..Len(tokens[i].literal) : tokens[i].literal[k] = "\n")
               => tokens[i].literal[1] \in {"\"", "'"}
    /\ pc = "lex" => lx.line = 1 + C24_Newlines(lx.current)
    /\ LexDone => tokens[Len(tokens)].line = 1 + C24_Newlines(Len(source))

====
